---------------------------- MODULE Spec2Model ----------------------------
(***************************************************************************)
(* Kaleidoscope front end: tokenizer (gettok), operator table              *)
(* (BinopPrecedence), recursive-descent / precedence-climbing parser,      *)
(* the backend's accept/reject decision (codegen) and the top-level        *)
(* driver (MainLoop).                                                      *)
(*                                                                         *)
(* Characters and tokens are integers exactly as in the source: a token    *)
(* is a negative enumerator of enum Token or the character code.  The     *)
(* globals of the program (CurTok, IdentifierStr, NumVal, BinopPrecedence, *)
(* FunctionProtos, TheModule, the lexer's lastChar) are the variables;     *)
(* every name denotes one object of the program.                           *)
(***************************************************************************)
EXTENDS Integers, Sequences, FiniteSets, TLC

VARIABLES
    input,            \* the characters stdin will deliver (fixed per run)
    pos,              \* number of characters getchar() has delivered
    lastChar,         \* gettok's static lastChar
    CurTok,           \* the parser's current token
    IdentifierStr,    \* filled in by gettok for TOK_IDENTIFIER
    NumVal,           \* filled in by gettok for TOK_NUMBER
    BinopPrecedence,  \* std::map<char,int>
    FunctionProtos,   \* std::map<std::string, PrototypeAST>
    TheModule,        \* functions of the module being built: name -> arg names
    pc,               \* position of main(): "start", "loop", "done", "abort";
                      \* "parsed" once ParseExpression was applied on its own
    ntok,             \* history: number of gettok() calls so far
    nerr,             \* history: number of LogError diagnostics so far
    tokStart,         \* history: offset in input of the current token
    last,             \* history: what the last loop iteration did
    handed,           \* history: the forms handed to codegen, in order
    expr              \* the case the input was drawn from (the expression
                      \* ParseExpression is applied to on its own)

vars == <<input, pos, lastChar, CurTok, IdentifierStr, NumVal, BinopPrecedence,
          FunctionProtos, TheModule, pc, ntok, nerr, tokStart, last, handed, expr>>

-----------------------------------------------------------------------------
(* Characters.                                                             *)

\* The printable ASCII characters, in code order starting at 32 (the entry
\* "bq" holds the place of the backquote, code 96).
AsciiTable ==
    <<" ", "!", "\"", "#", "$", "%", "&", "'", "(", ")", "*", "+", ",", "-",
      ".", "/", "0", "1", "2", "3", "4", "5", "6", "7", "8", "9", ":", ";",
      "<", "=", ">", "?", "@", "A", "B", "C", "D", "E", "F", "G", "H", "I",
      "J", "K", "L", "M", "N", "O", "P", "Q", "R", "S", "T", "U", "V", "W",
      "X", "Y", "Z", "[", "\\", "]", "^", "_", "bq", "a", "b", "c", "d", "e",
      "f", "g", "h", "i", "j", "k", "l", "m", "n", "o", "p", "q", "r", "s",
      "t", "u", "v", "w", "x", "y", "z", "{", "|", "}", "~">>

\* The code of a one-character string ("\n" is the newline).
Ord(ch) ==
    IF ch = "\n" THEN 10
    ELSE 31 + (CHOOSE i \in 1..Len(AsciiTable) : AsciiTable[i] = ch)

\* A text given as a sequence of one-character strings, as character codes.
Txt(s) == [i \in 1..Len(s) |-> Ord(s[i])]

\* getchar()'s end-of-file value.
EOF == -1

isspace(c) == c \in {32, 9, 10, 11, 12, 13}
isdigit(c) == c \in 48..57
isalpha(c) == c \in (65..90) \cup (97..122)
isalnum(c) == isalpha(c) \/ isdigit(c)
isascii(c) == c \in 0..127

-----------------------------------------------------------------------------
(* Tokens (enum Token).                                                    *)

TOK_EOF == -1
TOK_DEF == -2
TOK_EXTERN == -3
TOK_IDENTIFIER == -4
TOK_NUMBER == -5
TOK_IF == -6
TOK_THEN == -7
TOK_ELSE == -8
TOK_FOR == -9
TOK_IN == -10
TOK_BINARY == -11
TOK_UNARY == -12

\* A double restricted to what strtod yields on [0-9.]+ : a whole part and
\* the fraction's digits (trailing zeros dropped).
Num(w, f) == [whole |-> w, frac |-> f]
Zero == Num(0, <<>>)

-----------------------------------------------------------------------------
(* The tokenizer.  A lexer state is the record                             *)
(*   [input, pos, lastChar, IdentifierStr, NumVal, tokStart]               *)
(* (more fields ride along untouched).  A function of the source is one    *)
(* definition per straight-line stretch: the definition named after the    *)
(* function is its entry, the ones after it are its later stretches.       *)

\* lastChar = getchar()
Getchar(L) ==
    IF L.pos < Len(L.input)
    THEN [L EXCEPT !.pos = @ + 1, !.lastChar = L.input[L.pos + 1]]
    ELSE [L EXCEPT !.pos = Len(L.input) + 1, !.lastChar = EOF]

\* while (isspace(lastChar)) lastChar = getchar();
RECURSIVE SkipSpace(_)
SkipSpace(L) == IF isspace(L.lastChar) THEN SkipSpace(Getchar(L)) ELSE L

\* while (isalnum(lastChar = getchar())) IdentifierStr += lastChar;
RECURSIVE ReadIdent(_), ReadIdentTest(_)
ReadIdent(L) == ReadIdentTest(Getchar(L))
\* ReadIdentTest that ends the run at a digit.
ReadIdentTest_Alpha(M) ==
    IF isalpha(M.lastChar)
    THEN ReadIdent([M EXCEPT !.IdentifierStr = Append(@, M.lastChar)])
    ELSE M

ReadIdentTest(M) ==
    IF isalnum(M.lastChar)
    THEN ReadIdent([M EXCEPT !.IdentifierStr = Append(@, M.lastChar)])
    ELSE M

\* do { numStr += lastChar; lastChar = getchar(); } while (digit or '.'),
\* entered on a digit or '.': [lex, numStr].
RECURSIVE ReadNumStr(_, _)
ReadNumStr(L, numStr) ==
    IF isdigit(L.lastChar) \/ L.lastChar = 46
    THEN ReadNumStr(Getchar(L), Append(numStr, L.lastChar))
    ELSE [lex |-> L, numStr |-> numStr]

\* The longest run of digits of s starting at index i.
RECURSIVE DigitRun(_, _)
DigitRun(s, i) ==
    IF i <= Len(s) /\ isdigit(s[i]) THEN <<s[i] - 48>> \o DigitRun(s, i + 1)
    ELSE <<>>

RECURSIVE DigitsValue(_)
DigitsValue(d) ==
    IF d = <<>> THEN 0 ELSE 10 * DigitsValue(SubSeq(d, 1, Len(d) - 1)) + d[Len(d)]

RECURSIVE DropTrailingZeros(_)
DropTrailingZeros(d) ==
    IF d # <<>> /\ d[Len(d)] = 0 THEN DropTrailingZeros(SubSeq(d, 1, Len(d) - 1))
    ELSE d

\* The fraction digits of s after whole part w, if a '.' follows it.
FractionOf(s, w) ==
    IF Len(w) + 1 <= Len(s) /\ s[Len(w) + 1] = 46 THEN DigitRun(s, Len(w) + 2)
    ELSE <<>>

StrtodValue(w, f) ==
    IF w = <<>> /\ f = <<>> THEN Zero
    ELSE Num(DigitsValue(w), DropTrailingZeros(f))

StrtodWhole(s, w) == StrtodValue(w, FractionOf(s, w))

\* strtod on a string of digits and dots: the longest valid prefix
\* digits [ '.' digits ] with at least one digit; 0 when there is none.
strtod(s) == StrtodWhole(s, DigitRun(s, 1))

\* do lastChar = getchar(); while (lastChar != EOF && != '\n' && != '\r');
RECURSIVE SkipComment(_), SkipCommentTest(_)
SkipComment(L) == SkipCommentTest(Getchar(L))
\* SkipCommentTest for which a carriage return does not end the comment.
SkipCommentTest_NoCR(M) ==
    IF M.lastChar # EOF /\ M.lastChar # 10 THEN SkipComment(M) ELSE M

SkipCommentTest(M) ==
    IF M.lastChar # EOF /\ M.lastChar # 10 /\ M.lastChar # 13
    THEN SkipComment(M) ELSE M

\* The spellings gettok compares IdentifierStr with.
StrDef == Txt(<<"d","e","f">>)
StrExtern == Txt(<<"e","x","t","e","r","n">>)
StrIf == Txt(<<"i","f">>)
StrThen == Txt(<<"t","h","e","n">>)
StrElse == Txt(<<"e","l","s","e">>)
StrFor == Txt(<<"f","o","r">>)
StrIn == Txt(<<"i","n">>)
StrBinary == Txt(<<"b","i","n","a","r","y">>)
StrUnary == Txt(<<"u","n","a","r","y">>)

Keyword(s) ==
    IF s = StrDef THEN TOK_DEF
    ELSE IF s = StrExtern THEN TOK_EXTERN
    ELSE IF s = StrIf THEN TOK_IF
    ELSE IF s = StrThen THEN TOK_THEN
    ELSE IF s = StrElse THEN TOK_ELSE
    ELSE IF s = StrFor THEN TOK_FOR
    ELSE IF s = StrIn THEN TOK_IN
    ELSE IF s = StrBinary THEN TOK_BINARY
    ELSE IF s = StrUnary THEN TOK_UNARY
    ELSE TOK_IDENTIFIER

RECURSIVE gettok(_), gettokAt(_), gettokIdent(_), gettokNumber(_),
          gettokComment(_), gettokEofOrChar(_)

\* int gettok(): the new lexer state and the token, [lex |-> L, tok |-> t].
gettok(L) == gettokAt(SkipSpace(L))

\* After the blanks: the token starts at the character in lastChar.
gettokAt(S) ==
    IF isalpha(S.lastChar) THEN
        gettokIdent(ReadIdent([S EXCEPT !.tokStart = S.pos,
                                        !.IdentifierStr = <<S.lastChar>>]))
    ELSE IF isdigit(S.lastChar) \/ S.lastChar = 46 THEN
        gettokNumber(ReadNumStr([S EXCEPT !.tokStart = S.pos], <<>>))
    ELSE IF S.lastChar = 35 THEN gettokComment(SkipComment(S))
    ELSE gettokEofOrChar([S EXCEPT !.tokStart = S.pos])

gettokIdent(M) == [lex |-> M, tok |-> Keyword(M.IdentifierStr)]

gettokNumber(N) ==
    [lex |-> [N.lex EXCEPT !.NumVal = strtod(N.numStr)], tok |-> TOK_NUMBER]

\* After a comment: the next token, unless the comment ran into end of file.
gettokComment(C) ==
    IF C.lastChar # EOF THEN gettok(C)
    ELSE gettokEofOrChar([C EXCEPT !.tokStart = C.pos])

\* gettokEofOrChar that, having delivered the end of input, starts over
\* at the first character.
gettokEofOrChar_Rewind(L) ==
    IF L.lastChar = EOF
    THEN [lex |-> [L EXCEPT !.pos = 0, !.lastChar = 32], tok |-> TOK_EOF]
    ELSE [lex |-> Getchar(L), tok |-> L.lastChar]

gettokEofOrChar(L) ==
    IF L.lastChar = EOF THEN [lex |-> L, tok |-> TOK_EOF]
    ELSE [lex |-> Getchar(L), tok |-> L.lastChar]

-----------------------------------------------------------------------------
(* The parser.  A parser state is the lexer state plus                     *)
(*   [CurTok, BinopPrecedence, ntok, nerr];                                *)
(* every parse function yields [st |-> the state it leaves, ast |-> the    *)
(* node it built, or Null for nullptr].                                    *)

Null == [kind |-> "null"]
R(P, node) == [st |-> P, ast |-> node]

NumberExprAST(v) == [kind |-> "Number", Val |-> v]
VariableExprAST(n) == [kind |-> "Variable", Name |-> n]
UnaryExprAST(op, e) == [kind |-> "Unary", Opcode |-> op, Operand |-> e]
BinaryExprAST(op, l, r) == [kind |-> "Binary", Op |-> op, LHS |-> l, RHS |-> r]
CallExprAST(c, a) == [kind |-> "Call", Callee |-> c, Args |-> a]
IfExprAST(c, t, e) == [kind |-> "If", Cond |-> c, Then |-> t, Else |-> e]
ForExprAST(v, s, e, st, b) ==
    [kind |-> "For", VarName |-> v, Start |-> s, End |-> e, Step |-> st, Body |-> b]
PrototypeAST(n, a, isOp, prec) ==
    [kind |-> "Prototype", Name |-> n, Args |-> a, isOperator |-> isOp,
     Precedence |-> prec]
FunctionAST(p, b) == [kind |-> "Function", Proto |-> p, Body |-> b]

\* CurTok = gettok(), counted.
SetCurTok(g) == [g.lex EXCEPT !.CurTok = g.tok, !.ntok = @ + 1]

\* static int getNextToken() { return CurTok = gettok(); }
getNextToken(P) == SetCurTok(gettok(P))

\* LogError / LogErrorP: one diagnostic on stderr, nullptr to the caller.
LogError(P) == R([P EXCEPT !.nerr = @ + 1], Null)

\* std::map::operator[] : the entry for key k, created with value 0 if absent.
MapIndex(T, k) == IF k \in DOMAIN T THEN T ELSE T @@ (k :> 0)

\* DeclaredBinop that takes an entry of value 0 for a declared operator.
DeclaredBinop_Zero(TokPrec) == IF TokPrec < 0 THEN -1 ELSE TokPrec

\* The value GetTokPrecedence returns for table entry TokPrec.
DeclaredBinop(TokPrec) == IF TokPrec <= 0 THEN -1 ELSE TokPrec

\* GetTokPrecedence: [st |-> state (the table as operator[] left it), prec].
GetTokPrecedence(P) ==
    IF ~isascii(P.CurTok) THEN [st |-> P, prec |-> -1]
    ELSE [st |-> [P EXCEPT !.BinopPrecedence = MapIndex(@, P.CurTok)],
          prec |-> DeclaredBinop(MapIndex(P.BinopPrecedence, P.CurTok)[P.CurTok])]

RECURSIVE ParseExpression(_), ParseExpressionRHS(_),
          ParsePrimary(_), ParseUnary(_), ParseUnaryOperand(_, _),
          ParseBinOpRHS(_, _, _), ParseBinOpRHSOp(_, _, _, _),
          ParseBinOpRHSOperand(_, _, _, _, _),
          ParseBinOpRHSPending(_, _, _, _, _, _),
          ParseBinOpRHSMerge(_, _, _, _),
          ParseParenExpr(_), ParseParenExprClose(_),
          ParseIdentifierExpr(_), ParseIdentifierExprName(_, _),
          ParseIdentifierExprCall(_, _), ParseIdentifierExprEnd(_, _),
          ParseCallArgs(_, _), ParseCallArgsNext(_, _),
          ParseIfExpr(_), ParseIfExprThen(_), ParseIfExprElse(_, _),
          ParseIfExprEnd(_, _, _),
          ParseForExpr(_), ParseForExprIdent(_), ParseForExprAssign(_, _),
          ParseForExprStart(_, _), ParseForExprEnd(_, _, _),
          ParseForExprStep(_, _, _, _), ParseForExprIn(_, _, _, _, _),
          ParseForExprBody(_, _, _, _, _)

ParseNumberExpr(P) == R(getNextToken(P), NumberExprAST(P.NumVal))

ParseParenExpr(P) == ParseParenExprClose(ParseExpression(getNextToken(P)))  \* eat (
\* ParseParenExprClose without the test for ')'.
ParseParenExprClose_Unchecked(V) ==
    IF V.ast = Null THEN V
    ELSE IF V.st.CurTok # 41 THEN R(V.st, V.ast)
    ELSE R(getNextToken(V.st), V.ast)

\* ParseParenExprClose that also consumes the token after ')'.
ParseParenExprClose_Eager(V) ==
    IF V.ast = Null THEN V
    ELSE IF V.st.CurTok # 41 THEN LogError(V.st)
    ELSE R(getNextToken(getNextToken(V.st)), V.ast)

ParseParenExprClose(V) ==
    IF V.ast = Null THEN V
    ELSE IF V.st.CurTok # 41 THEN LogError(V.st)   \* expected ')'
    ELSE R(getNextToken(V.st), V.ast)              \* eat )

ParseIdentifierExpr(P) ==
    ParseIdentifierExprName(P.IdentifierStr, getNextToken(P))   \* eat identifier
ParseIdentifierExprName(IdName, P) ==
    IF P.CurTok # 40 THEN R(P, VariableExprAST(IdName))   \* simple variable ref
    ELSE ParseIdentifierExprCall(IdName, getNextToken(P)) \* eat (
ParseIdentifierExprCall(IdName, P) ==
    IF P.CurTok = 41 THEN R(getNextToken(P), CallExprAST(IdName, <<>>))
    ELSE ParseIdentifierExprEnd(IdName, ParseCallArgs(P, <<>>))
ParseIdentifierExprEnd(IdName, A) ==
    IF ~A.ok THEN R(A.st, Null)
    ELSE R(getNextToken(A.st), CallExprAST(IdName, A.args))   \* eat the ')'

\* The argument loop of ParseIdentifierExpr, entered with CurTok # ')':
\* [st, args, ok]; on success CurTok is the closing ')'.
ParseCallArgs(P, Args) == ParseCallArgsNext(ParseExpression(P), Args)
ParseCallArgsNext(Arg, Args) ==
    IF Arg.ast = Null THEN [st |-> Arg.st, args |-> Args, ok |-> FALSE]
    ELSE IF Arg.st.CurTok = 41
         THEN [st |-> Arg.st, args |-> Append(Args, Arg.ast), ok |-> TRUE]
    ELSE IF Arg.st.CurTok # 44
         THEN [st |-> LogError(Arg.st).st, args |-> Args, ok |-> FALSE]
    ELSE ParseCallArgs(getNextToken(Arg.st), Append(Args, Arg.ast))

\* ParsePrimary that takes the end of input for the number 0.
ParsePrimary_EofIsZero(P) ==
    IF P.CurTok = TOK_EOF THEN R(P, NumberExprAST(Zero))
    ELSE IF P.CurTok = TOK_IDENTIFIER THEN ParseIdentifierExpr(P)
    ELSE IF P.CurTok = TOK_NUMBER THEN ParseNumberExpr(P)
    ELSE IF P.CurTok = 40 THEN ParseParenExpr(P)
    ELSE IF P.CurTok = TOK_IF THEN ParseIfExpr(P)
    ELSE IF P.CurTok = TOK_FOR THEN ParseForExpr(P)
    ELSE LogError(P)

ParsePrimary(P) ==
    IF P.CurTok = TOK_IDENTIFIER THEN ParseIdentifierExpr(P)
    ELSE IF P.CurTok = TOK_NUMBER THEN ParseNumberExpr(P)
    ELSE IF P.CurTok = 40 THEN ParseParenExpr(P)
    ELSE IF P.CurTok = TOK_IF THEN ParseIfExpr(P)
    ELSE IF P.CurTok = TOK_FOR THEN ParseForExpr(P)
    ELSE LogError(P)           \* unknown token when expecting an expression

\* ParseUnary that takes a character of the operator table for no prefix
\* operator.
ParseUnary_NotInTable(P) ==
    IF \/ ~isascii(P.CurTok) \/ P.CurTok = 40 \/ P.CurTok = 44
       \/ (P.CurTok \in DOMAIN P.BinopPrecedence /\ P.BinopPrecedence[P.CurTok] > 0)
    THEN ParsePrimary(P)
    ELSE ParseUnaryOperand(P.CurTok, ParseUnary(getNextToken(P)))

\* ParseUnary whose operand is a whole expression.
ParseUnary_Loose(P) ==
    IF ~isascii(P.CurTok) \/ P.CurTok = 40 \/ P.CurTok = 44 THEN ParsePrimary(P)
    ELSE ParseUnaryOperand(P.CurTok, ParseExpression(getNextToken(P)))

ParseUnary(P) ==
    IF ~isascii(P.CurTok) \/ P.CurTok = 40 \/ P.CurTok = 44 THEN ParsePrimary(P)
    ELSE ParseUnaryOperand(P.CurTok, ParseUnary(getNextToken(P)))
\* ParseUnaryOperand that reports the failure of its operand once more.
ParseUnaryOperand_Relog(Opc, Operand) ==
    IF Operand.ast # Null THEN R(Operand.st, UnaryExprAST(Opc, Operand.ast))
    ELSE LogError(Operand.st)

ParseUnaryOperand(Opc, Operand) ==
    IF Operand.ast # Null THEN R(Operand.st, UnaryExprAST(Opc, Operand.ast))
    ELSE R(Operand.st, Null)

\* One turn of the while (true) loop of ParseBinOpRHS.
ParseBinOpRHS(ExprPrec, LHS, P) ==
    ParseBinOpRHSOp(ExprPrec, LHS, P.CurTok, GetTokPrecedence(P))
\* g: the current token's precedence.
ParseBinOpRHSOp(ExprPrec, LHS, BinOp, g) ==
    IF g.prec < ExprPrec THEN R(g.st, LHS)
    ELSE ParseBinOpRHSOperand(ExprPrec, LHS, BinOp, g.prec,
                              ParseUnary(getNextToken(g.st)))   \* eat binop
ParseBinOpRHSOperand(ExprPrec, LHS, BinOp, TokPrec, RHS) ==
    IF RHS.ast = Null THEN RHS
    ELSE ParseBinOpRHSPending(ExprPrec, LHS, BinOp, TokPrec, RHS.ast,
                              GetTokPrecedence(RHS.st))
\* ParseBinOpRHSPending that never lets the pending operator take RHS.
ParseBinOpRHSPending_Flat(ExprPrec, LHS, BinOp, TokPrec, RHS, n) ==
    ParseBinOpRHSMerge(ExprPrec, LHS, BinOp, R(n.st, RHS))

\* ParseBinOpRHSPending with <= for <: equal precedence goes to the right.
ParseBinOpRHSPending_Right(ExprPrec, LHS, BinOp, TokPrec, RHS, n) ==
    IF TokPrec <= n.prec
    THEN ParseBinOpRHSMerge(ExprPrec, LHS, BinOp,
                            ParseBinOpRHS(TokPrec, RHS, n.st))
    ELSE ParseBinOpRHSMerge(ExprPrec, LHS, BinOp, R(n.st, RHS))

\* n: the precedence of the operator after RHS.
ParseBinOpRHSPending(ExprPrec, LHS, BinOp, TokPrec, RHS, n) ==
    IF TokPrec < n.prec
    THEN ParseBinOpRHSMerge(ExprPrec, LHS, BinOp,
                            ParseBinOpRHS(TokPrec + 1, RHS, n.st))
    ELSE ParseBinOpRHSMerge(ExprPrec, LHS, BinOp, R(n.st, RHS))
ParseBinOpRHSMerge(ExprPrec, LHS, BinOp, RHS) ==
    IF RHS.ast = Null THEN RHS
    ELSE ParseBinOpRHS(ExprPrec, BinaryExprAST(BinOp, LHS, RHS.ast), RHS.st)

ParseExpression(P) == ParseExpressionRHS(ParseUnary(P))
ParseExpressionRHS(LHS) ==
    IF LHS.ast = Null THEN LHS ELSE ParseBinOpRHS(0, LHS.ast, LHS.st)

ParseIfExpr(P) == ParseIfExprThen(ParseExpression(getNextToken(P)))   \* eat if
ParseIfExprThen(Cond) ==
    IF Cond.ast = Null THEN Cond
    ELSE IF Cond.st.CurTok # TOK_THEN THEN LogError(Cond.st)
    ELSE ParseIfExprElse(Cond.ast, ParseExpression(getNextToken(Cond.st)))
ParseIfExprElse(Cond, Then) ==
    IF Then.ast = Null THEN Then
    ELSE IF Then.st.CurTok # TOK_ELSE THEN LogError(Then.st)
    ELSE ParseIfExprEnd(Cond, Then.ast, ParseExpression(getNextToken(Then.st)))
ParseIfExprEnd(Cond, Then, Else) ==
    IF Else.ast = Null THEN Else
    ELSE R(Else.st, IfExprAST(Cond, Then, Else.ast))

ParseForExpr(P) == ParseForExprIdent(getNextToken(P))                 \* eat for
ParseForExprIdent(P) ==
    IF P.CurTok # TOK_IDENTIFIER THEN LogError(P)
    ELSE ParseForExprAssign(P.IdentifierStr, getNextToken(P))
ParseForExprAssign(idName, P) ==
    IF P.CurTok # 61 THEN LogError(P)                  \* expected '='
    ELSE ParseForExprStart(idName, ParseExpression(getNextToken(P)))
ParseForExprStart(idName, Start) ==
    IF Start.ast = Null THEN Start
    ELSE IF Start.st.CurTok # 44 THEN LogError(Start.st)
    ELSE ParseForExprEnd(idName, Start.ast, ParseExpression(getNextToken(Start.st)))
\* ParseForExprEnd that knows no step value.
ParseForExprEnd_NoStep(idName, Start, End) ==
    IF End.ast = Null THEN End
    ELSE ParseForExprIn(idName, Start, End.ast, Null, End.st)

ParseForExprEnd(idName, Start, End) ==
    IF End.ast = Null THEN End
    ELSE IF End.st.CurTok = 44                         \* step value is optional
         THEN ParseForExprStep(idName, Start, End.ast,
                               ParseExpression(getNextToken(End.st)))
    ELSE ParseForExprIn(idName, Start, End.ast, Null, End.st)
ParseForExprStep(idName, Start, End, Step) ==
    IF Step.ast = Null THEN Step
    ELSE ParseForExprIn(idName, Start, End, Step.ast, Step.st)
ParseForExprIn(idName, Start, End, Step, P) ==
    IF P.CurTok # TOK_IN THEN LogError(P)
    ELSE ParseForExprBody(idName, Start, End, Step,
                          ParseExpression(getNextToken(P)))
ParseForExprBody(idName, Start, End, Step, Body) ==
    IF Body.ast = Null THEN Body
    ELSE R(Body.st, ForExprAST(idName, Start, End, Step, Body.ast))

\* while (getNextToken() == TOK_IDENTIFIER) ArgNames.push_back(IdentifierStr);
RECURSIVE ReadArgNames(_, _), ReadArgNamesTest(_, _)
ReadArgNames(P, ArgNames) == ReadArgNamesTest(getNextToken(P), ArgNames)
ReadArgNamesTest(Q, ArgNames) ==
    IF Q.CurTok = TOK_IDENTIFIER
    THEN ReadArgNames(Q, Append(ArgNames, Q.IdentifierStr))
    ELSE [st |-> Q, names |-> ArgNames]

\* ParsePrototypeArity that installs a binary operator's precedence at once.
ParsePrototypeArity_Install(P, FnName, Kind, BinaryPrecedence, ArgNames) ==
    IF Kind # 0 /\ Len(ArgNames) # Kind THEN LogError(P)
    ELSE R(IF Kind = 2
           THEN [P EXCEPT !.BinopPrecedence =
                     [x \in DOMAIN @ \cup {FnName[Len(FnName)]} |->
                         IF x = FnName[Len(FnName)] THEN BinaryPrecedence ELSE @[x]]]
           ELSE P,
           PrototypeAST(FnName, ArgNames, Kind # 0, BinaryPrecedence))

\* ParsePrototypeArity without the test of the number of names.
ParsePrototypeArity_Any(P, FnName, Kind, BinaryPrecedence, ArgNames) ==
    R(P, PrototypeAST(FnName, ArgNames, Kind # 0, BinaryPrecedence))

\* Verify right number of names for operator; success.
ParsePrototypeArity(P, FnName, Kind, BinaryPrecedence, ArgNames) ==
    IF Kind # 0 /\ Len(ArgNames) # Kind THEN LogError(P)
    ELSE R(P, PrototypeAST(FnName, ArgNames, Kind # 0, BinaryPrecedence))

ParsePrototypeClose(A, FnName, Kind, BinaryPrecedence) ==
    IF A.st.CurTok # 41 THEN LogError(A.st)            \* expected ')'
    ELSE ParsePrototypeArity(getNextToken(A.st), FnName, Kind,   \* eat ')'
                             BinaryPrecedence, A.names)

\* ParsePrototype from the test for '(' on.
ParsePrototypeArgs(P, FnName, Kind, BinaryPrecedence) ==
    IF P.CurTok # 40 THEN LogError(P)                  \* expected '('
    ELSE ParsePrototypeClose(ReadArgNames(P, <<>>), FnName, Kind, BinaryPrecedence)

\* NumLess1 that lets 0 and the fractions below 1 through.
NumLess1_Negative(v) == v.whole < 0

NumLess1(v) == v.whole < 1
NumGreater100(v) == v.whole > 100 \/ (v.whole = 100 /\ v.frac # <<>>)

\* case TOK_BINARY after the operator character: the precedence if present.
ParsePrototypePrecedence(P, FnName) ==
    IF P.CurTok = TOK_NUMBER THEN
        IF NumLess1(P.NumVal) \/ NumGreater100(P.NumVal)
        THEN LogError(P)                               \* invalid precedence
        ELSE ParsePrototypeArgs(getNextToken(P), FnName, 2, P.NumVal.whole)
    ELSE ParsePrototypeArgs(P, FnName, 2, 30)

ParsePrototypeBinary(P) ==
    IF ~isascii(P.CurTok) THEN LogError(P)             \* expected binary operator
    ELSE ParsePrototypePrecedence(getNextToken(P),
             StrBinary \o <<P.CurTok>>)

ParsePrototypeUnary(P) ==
    IF ~isascii(P.CurTok) THEN LogError(P)             \* expected unary operator
    ELSE ParsePrototypeArgs(getNextToken(P),
             StrUnary \o <<P.CurTok>>, 1, 30)

ParsePrototype(P) ==
    IF P.CurTok = TOK_IDENTIFIER
    THEN ParsePrototypeArgs(getNextToken(P), P.IdentifierStr, 0, 30)
    ELSE IF P.CurTok = TOK_UNARY THEN ParsePrototypeUnary(getNextToken(P))
    ELSE IF P.CurTok = TOK_BINARY THEN ParsePrototypeBinary(getNextToken(P))
    ELSE LogError(P)                                   \* expected function name

\* ParseDefinitionEnd that takes a binary operator out of the table when
\* its body does not parse.
ParseDefinitionEnd_Rollback(Proto, E) ==
    IF E.ast # Null THEN R(E.st, FunctionAST(Proto, E.ast))
    ELSE IF Proto.isOperator /\ Len(Proto.Args) = 2
         THEN R([E.st EXCEPT !.BinopPrecedence =
                     [x \in DOMAIN @ \ {Proto.Name[Len(Proto.Name)]} |-> @[x]]],
                Null)
    ELSE R(E.st, Null)

\* ParseDefinitionEnd that returns the prototype with an empty body when the
\* body did not parse.
ParseDefinitionEnd_Partial(Proto, E) ==
    IF E.ast # Null THEN R(E.st, FunctionAST(Proto, E.ast))
    ELSE R(E.st, FunctionAST(Proto, NumberExprAST(Zero)))

ParseDefinitionEnd(Proto, E) ==
    IF E.ast # Null THEN R(E.st, FunctionAST(Proto, E.ast)) ELSE R(E.st, Null)
ParseDefinitionBody(Proto) ==
    IF Proto.ast = Null THEN Proto
    ELSE ParseDefinitionEnd(Proto.ast, ParseExpression(Proto.st))
ParseDefinition(P) == ParseDefinitionBody(ParsePrototype(getNextToken(P)))  \* eat def

AnonExpr == Txt(<<"_","_","a","n","o","n","_","e","x","p","r">>)

ParseTopLevelExprEnd(E) ==
    IF E.ast # Null
    THEN R(E.st, FunctionAST(PrototypeAST(AnonExpr, <<>>, FALSE, 0), E.ast))
    ELSE R(E.st, Null)
ParseTopLevelExpr(P) == ParseTopLevelExprEnd(ParseExpression(P))

ParseExtern(P) == ParsePrototype(getNextToken(P))      \* eat extern

-----------------------------------------------------------------------------
(* The backend's decision.  A backend state is the record                  *)
(*   [FunctionProtos, TheModule, BinopPrecedence, NamedValues, nerr,       *)
(*    abort];                                                              *)
(* NamedValues is the set of names with a non-null value, TheModule maps   *)
(* each function of the module to its argument names, abort says that an   *)
(* assertion has failed (the process is gone).                             *)

MapRemove(T, k) == [x \in DOMAIN T \ {k} |-> T[x]]
MapAssign(T, k, v) == [x \in DOMAIN T \cup {k} |-> IF x = k THEN v ELSE T[x]]
SeqRange(q) == {q[i] : i \in 1..Len(q)}

\* LogErrorV
LogErrorV(B) == [st |-> [B EXCEPT !.nerr = @ + 1], ok |-> FALSE]

isBinaryOp(P) == P.isOperator /\ Len(P.Args) = 2
isUnaryOp(P) == P.isOperator /\ Len(P.Args) = 1
getOperatorName(P) == P.Name[Len(P.Name)]

\* PrototypeAST::codegen: Function::Create in TheModule (a name the module
\* already holds keeps its function; LLVM gives the new one another name).
PrototypeCodegen(B, P) ==
    IF P.Name \in DOMAIN B.TheModule THEN B
    ELSE [B EXCEPT !.TheModule = MapAssign(@, P.Name, P.Args)]

\* getFunction: [st, found]
getFunction(B, Name) ==
    IF Name \in DOMAIN B.TheModule THEN [st |-> B, found |-> TRUE]
    ELSE IF Name \in DOMAIN B.FunctionProtos
         THEN [st |-> PrototypeCodegen(B, B.FunctionProtos[Name]), found |-> TRUE]
    ELSE [st |-> B, found |-> FALSE]

BuiltinOps == {43, 45, 42, 47, 60, 62}       \* + - * / < >

\* ExprAST::codegen for every node kind: [st, ok] (ok: a non-null Value).
RECURSIVE ExprCodegen(_, _), ArgsCodegen(_, _, _)
ExprCodegen(B, e) ==
    IF B.abort THEN [st |-> B, ok |-> FALSE]
    ELSE IF e.kind = "Number" THEN [st |-> B, ok |-> TRUE]
    ELSE IF e.kind = "Variable" THEN
        IF e.Name \in B.NamedValues THEN [st |-> B, ok |-> TRUE]
        ELSE LogErrorV(B)                          \* unknown variable name
    ELSE IF e.kind = "Binary" THEN
        LET L == ExprCodegen(B, e.LHS)
            Rr == ExprCodegen(L.st, e.RHS)
        IN  IF ~L.ok \/ ~Rr.ok THEN [st |-> Rr.st, ok |-> FALSE]
            ELSE IF e.Op \in BuiltinOps THEN Rr
            ELSE LET F == getFunction(Rr.st, StrBinary \o <<e.Op>>)
                 IN  IF F.found THEN [st |-> F.st, ok |-> TRUE]
                     ELSE [st |-> [F.st EXCEPT !.abort = TRUE], ok |-> FALSE]
    ELSE IF e.kind = "Unary" THEN
        LET O == ExprCodegen(B, e.Operand)
        IN  IF ~O.ok THEN O
            ELSE LET F == getFunction(O.st, StrUnary \o <<e.Opcode>>)
                 IN  IF F.found THEN [st |-> F.st, ok |-> TRUE]
                     ELSE LogErrorV(F.st)          \* unknown unary operator
    ELSE IF e.kind = "Call" THEN
        LET F == getFunction(B, e.Callee)
        IN  IF ~F.found THEN LogErrorV(F.st)       \* unknown function referenced
            ELSE IF Len(F.st.TheModule[e.Callee]) # Len(e.Args)
                 THEN LogErrorV(F.st)              \* incorrect # arguments passed
            ELSE ArgsCodegen(F.st, e.Args, 1)
    ELSE IF e.kind = "If" THEN
        LET C == ExprCodegen(B, e.Cond)
        IN  IF ~C.ok THEN C
            ELSE LET T == ExprCodegen(C.st, e.Then)
                 IN  IF ~T.ok THEN T ELSE ExprCodegen(T.st, e.Else)
    ELSE \* "For"
        LET S == ExprCodegen(B, e.Start)
        IN  IF ~S.ok THEN S
            ELSE
              LET OldVal == e.VarName \in S.st.NamedValues
                  Bd == ExprCodegen([S.st EXCEPT !.NamedValues = @ \cup {e.VarName}],
                                    e.Body)
              IN  IF ~Bd.ok THEN Bd
                  ELSE
                    LET St == IF e.Step # Null THEN ExprCodegen(Bd.st, e.Step)
                              ELSE Bd
                    IN  IF ~St.ok THEN St
                        ELSE
                          LET En == ExprCodegen(St.st, e.End)
                          IN  IF ~En.ok THEN En
                              ELSE [st |-> [En.st EXCEPT !.NamedValues =
                                               IF OldVal THEN @ ELSE @ \ {e.VarName}],
                                    ok |-> TRUE]

\* The argument loop of CallExprAST::codegen, from argument i on.
ArgsCodegen(B, Args, i) ==
    IF i > Len(Args) THEN [st |-> B, ok |-> TRUE]
    ELSE LET A == ExprCodegen(B, Args[i])
         IN  IF ~A.ok THEN A ELSE ArgsCodegen(A.st, Args, i + 1)

\* FunctionAST::codegen without the installation of the precedence.
FunctionCodegen_NoInstall(B, Fn) ==
    LET P == Fn.Proto
        B1 == [B EXCEPT !.FunctionProtos = MapAssign(@, P.Name, P)]
        G == getFunction(B1, P.Name)
        B3 == [G.st EXCEPT !.NamedValues = SeqRange(G.st.TheModule[P.Name])]
        Body == ExprCodegen(B3, Fn.Body)
    IN  IF Body.ok \/ Body.st.abort THEN Body
        ELSE [st |-> [Body.st EXCEPT
                         !.TheModule = MapRemove(@, P.Name),
                         !.BinopPrecedence =
                             IF isBinaryOp(P) THEN MapRemove(@, getOperatorName(P))
                             ELSE @],
              ok |-> FALSE]

\* FunctionAST::codegen without the erase of the precedence on failure.
FunctionCodegen_NoErase(B, Fn) ==
    LET P == Fn.Proto
        B1 == [B EXCEPT !.FunctionProtos = MapAssign(@, P.Name, P)]
        G == getFunction(B1, P.Name)
        B2 == IF isBinaryOp(P)
              THEN [G.st EXCEPT !.BinopPrecedence =
                        MapAssign(@, getOperatorName(P), P.Precedence)]
              ELSE G.st
        B3 == [B2 EXCEPT !.NamedValues = SeqRange(B2.TheModule[P.Name])]
        Body == ExprCodegen(B3, Fn.Body)
    IN  IF Body.ok \/ Body.st.abort THEN Body
        ELSE [st |-> [Body.st EXCEPT !.TheModule = MapRemove(@, P.Name)],
              ok |-> FALSE]

\* FunctionAST::codegen: [st, ok] (ok: a non-null Function).
FunctionCodegen(B, Fn) ==
    LET P == Fn.Proto
        B1 == [B EXCEPT !.FunctionProtos = MapAssign(@, P.Name, P)]
        G == getFunction(B1, P.Name)
    IN  IF ~G.found THEN [st |-> G.st, ok |-> FALSE]
        ELSE
          LET B2 == IF isBinaryOp(P)               \* if this is an operator, install it
                    THEN [G.st EXCEPT !.BinopPrecedence =
                              MapAssign(@, getOperatorName(P), P.Precedence)]
                    ELSE G.st
              B3 == [B2 EXCEPT !.NamedValues = SeqRange(B2.TheModule[P.Name])]
              Body == ExprCodegen(B3, Fn.Body)
          IN  IF Body.ok THEN Body
              ELSE IF Body.st.abort THEN Body
              ELSE \* error reading body, remove function
                LET B4 == [Body.st EXCEPT !.TheModule = MapRemove(@, P.Name)]
                IN  [st |-> IF isBinaryOp(P)
                            THEN [B4 EXCEPT !.BinopPrecedence =
                                      MapRemove(@, getOperatorName(P))]
                            ELSE B4,
                     ok |-> FALSE]

-----------------------------------------------------------------------------
(* The input: what stdin delivers.  A run of the interpreter reads the     *)
(* concatenation of at most MaxForms of the following texts, each followed *)
(* by a blank.                                                             *)

\* def binary| 5 (a b) a
SrcDefPipeOk == Txt(<<"d","e","f"," ","b","i","n","a","r","y","|"," ","5"," ","(","a"," ","b",")"," ","a">>)
\* def binary| 5 (a b) z
SrcDefPipeBad == Txt(<<"d","e","f"," ","b","i","n","a","r","y","|"," ","5"," ","(","a"," ","b",")"," ","z">>)
\* def binary| 7 (a b) )
SrcDefPipeBody == Txt(<<"d","e","f"," ","b","i","n","a","r","y","|"," ","7"," ","(","a"," ","b",")"," ",")">>)
\* def binary| 7 (a
SrcDefPipeProto == Txt(<<"d","e","f"," ","b","i","n","a","r","y","|"," ","7"," ","(","a">>)
\* def binary+ 9 (a b) z
SrcDefPlusBad == Txt(<<"d","e","f"," ","b","i","n","a","r","y","+"," ","9"," ","(","a"," ","b",")"," ","z">>)
\* def binary+ 9 (a b) )
SrcDefPlusBody == Txt(<<"d","e","f"," ","b","i","n","a","r","y","+"," ","9"," ","(","a"," ","b",")"," ",")">>)
\* a|b+c
SrcPipeExpr == Txt(<<"a","|","b","+","c">>)
\* (1+2
SrcParenOpen == Txt(<<"(","1","+","2">>)
\* def foo(
SrcDefFooOpen == Txt(<<"d","e","f"," ","f","o","o","(">>)
\* def bar(x) x
SrcDefBar == Txt(<<"d","e","f"," ","b","a","r","(","x",")"," ","x">>)
\* extern sin(x)
SrcExtern == Txt(<<"e","x","t","e","r","n"," ","s","i","n","(","x",")">>)
\* ;
SrcSemi == Txt(<<";">>)

Snippets ==
    {SrcDefPipeOk,
     SrcDefPipeBad,
     SrcDefPipeBody,
     SrcDefPipeProto,
     SrcDefPlusBad,
     SrcDefPlusBody,
     SrcPipeExpr,
     SrcParenOpen,
     SrcDefFooOpen,
     SrcDefBar,
     SrcExtern,
     SrcSemi}

MaxForms == 3

RECURSIVE Cat(_)
Cat(q) == IF q = <<>> THEN <<>> ELSE Head(q) \o <<32>> \o Cat(Tail(q))

Streams == {Cat(q) : q \in UNION {[1..n -> Snippets] : n \in 0..MaxForms}}

(* The input of one call of ParseExpression: `a p b q c`, three operands   *)
(* and two infix characters, the tokens separated by blanks.  An operand   *)
(* is a text with the tree it stands for (Null for one that cannot parse). *)

Var(n) == VariableExprAST(Txt(<<n>>))

\* a
OperandVar == [text |-> Txt(<<"a">>), ast |-> Var("a")]
\* 1
OperandNum == [text |-> Txt(<<"1">>), ast |-> NumberExprAST(Num(1, <<>>))]
\* (a<b)
OperandParen ==
    [text |-> Txt(<<"(","a","<","b",")">>), ast |-> BinaryExprAST(60, Var("a"), Var("b"))]
\* f(b)
OperandCall ==
    [text |-> Txt(<<"f","(","b",")">>), ast |-> CallExprAST(Txt(<<"f">>), <<Var("b")>>)]
\* !a
OperandNot == [text |-> Txt(<<"!","a">>), ast |-> UnaryExprAST(33, Var("a"))]
\* (a<b   with the closing parenthesis missing
OperandOpen == [text |-> Txt(<<"(","a","<","b">>), ast |-> Null]

Operands ==
    {OperandVar, OperandNum, OperandParen, OperandCall, OperandNot, OperandOpen}

InfixChars == {43, 45, 42, 60, 124}          \* + - * < |

NoExpr == [a |-> OperandVar, p |-> 0, b |-> OperandVar, q |-> 0, c |-> OperandVar]

ExprText(x) ==
    x.a.text \o <<32, x.p, 32>> \o x.b.text \o <<32, x.q, 32>> \o x.c.text

(* The input of one run on a single form given word by word (the words     *)
(* separated by blanks): a well-formed form with one word replaced or with *)
(* its tail cut off, a binary-operator definition with each spelling of    *)
(* the precedence, a prototype with each number of parameter names and a   *)
(* foreign token among them, and a rejected definition followed by a call  *)
(* of the function it names.                                               *)

\* The word that is the one character ch.
Word(ch) == <<Ord(ch)>>

\* def f ( a b ) a
TmplDef == <<StrDef, Word("f"), Word("("), Word("a"), Word("b"), Word(")"), Word("a")>>
\* def binary | 5 ( a b ) a
TmplDefBinary ==
    <<StrDef, StrBinary, Word("|"), Word("5"), Word("("), Word("a"), Word("b"), Word(")"),
      Word("a")>>
\* def unary ! ( a ) a
TmplDefUnary == <<StrDef, StrUnary, Word("!"), Word("("), Word("a"), Word(")"), Word("a")>>
\* extern f ( a )
TmplExtern == <<StrExtern, Word("f"), Word("("), Word("a"), Word(")")>>
\* for i = 1 , 9 in i
TmplFor ==
    <<StrFor, Word("i"), Word("="), Word("1"), Word(","), Word("9"), StrIn, Word("i")>>
\* for i = 1 , 9 , 2 in i
TmplForStep ==
    <<StrFor, Word("i"), Word("="), Word("1"), Word(","), Word("9"), Word(","),
      Word("2"), StrIn, Word("i")>>
\* if 1 then 2 else 3
TmplIf == <<StrIf, Word("1"), StrThen, Word("2"), StrElse, Word("3")>>
\* f ( 1 , 2 )
TmplCall == <<Word("f"), Word("("), Word("1"), Word(","), Word("2"), Word(")")>>
\* ( 1 + 2 )
TmplParen == <<Word("("), Word("1"), Word("+"), Word("2"), Word(")")>>

Templates ==
    {TmplDef, TmplDefBinary, TmplDefUnary, TmplExtern, TmplFor, TmplForStep,
     TmplIf, TmplCall, TmplParen}

\* The words a word of a template is replaced by.
Words ==
    {StrDef, StrExtern, StrBinary, StrUnary, StrFor, StrIf, StrThen, StrElse,
     StrIn, Word("a"), Word("1"), Word("("), Word(")"), Word(","), Word("="),
     Word("+"), Word("|"), Word(";")}

\* The words gettok delivers as TOK_IDENTIFIER.
IdentWords == {Word("a"), Word("b"), Word("f"), Word("i"), Word("x"), Word("z")}

\* One input: the family it belongs to, its words, and what it was made
\* from (template, position, the word put there, prototype kind 0/1/2 as in
\* ParsePrototype, number of parameter names).
Case(family, words, tmpl, at, word, kind, n) ==
    [family |-> family, words |-> words, tmpl |-> tmpl, at |-> at,
     word |-> word, kind |-> kind, n |-> n]

Replaced ==
    {Case("replace", [t EXCEPT ![i] = w], t, i, w, 0, 0) :
        <<t, i, w>> \in {x \in Templates \X (1..10) \X Words : x[2] <= Len(x[1])}}

Truncated ==
    {Case("truncate", SubSeq(t, 1, i), t, i, <<>>, 0, 0) :
        <<t, i>> \in {x \in Templates \X (0..10) : x[2] <= Len(x[1])}}

\* The spellings of the precedence in `def binary | <number> ( a b ) a`.
PrecedenceWords ==
    {Txt(<<"0">>), Word("1"), Word("5"), Txt(<<"3","0">>), Txt(<<"1","0","0">>),
     Txt(<<"1","0","1">>), Txt(<<"0",".","5">>), Txt(<<"1",".","5">>),
     Txt(<<"9","9",".","9">>), Txt(<<"1","0","0",".","5">>),
     Txt(<<"1","0","0",".","0">>)}

\* def binary | <number> ( a b ) a, and the same without the number.
Precedences ==
    {Case("precedence",
          <<StrDef, StrBinary, Word("|"), w, Word("("), Word("a"), Word("b"), Word(")"),
            Word("a")>>, TmplDefBinary, 4, w, 2, 2) : w \in PrecedenceWords}
    \cup
    {Case("precedence",
          <<StrDef, StrBinary, Word("|"), Word("("), Word("a"), Word("b"), Word(")"),
            Word("a")>>, TmplDefBinary, 4, <<>>, 2, 2)}

MaxArgs == 3

\* The i-th parameter name: a, b, c, ...
ArgName(i) == <<96 + i>>
ArgNames(from, to) == [i \in 1..(to - from + 1) |-> ArgName(from + i - 1)]

\* What opens a prototype of each kind: f, unary !, binary |.
ProtoHead(kind) ==
    IF kind = 0 THEN <<Word("f")>>
    ELSE IF kind = 1 THEN <<StrUnary, Word("!")>>
    ELSE <<StrBinary, Word("|")>>

\* The tokens put among the parameter names (<<>>: none).
Intruders == {<<>>, Word(","), Word("1"), Word("+"), Word("("), StrIn, Word(";")}

\* def <head> ( n names, the word w (if any) after the first j of them ) 1
Prototypes ==
    {Case("prototype",
          <<StrDef>> \o ProtoHead(x[1]) \o <<Word("(")>> \o ArgNames(1, x[3])
             \o (IF x[4] = <<>> THEN <<>> ELSE <<x[4]>>)
             \o ArgNames(x[3] + 1, x[2]) \o <<Word(")"), Word("1")>>,
          <<>>, x[3], x[4], x[1], x[2]) :
        x \in {y \in (0..2) \X (0..MaxArgs) \X (0..MaxArgs) \X Intruders :
                  /\ y[3] <= y[2]
                  /\ (y[4] = <<>> => y[3] = 0)}}

\* def b ( x ) z   followed by   b ( 1 )   or by   def b ( x ) x
RejectedThenUsed ==
    {Case("rejected",
          <<StrDef, Word("b"), Word("("), Word("x"), Word(")"), Word("z")>> \o t,
          <<>>, 0, <<>>, 0, 1) :
        t \in {<<Word("b"), Word("("), Word("1"), Word(")")>>,
               <<StrDef, Word("b"), Word("("), Word("x"), Word(")"), Word("x")>>}}

\* Forms that are no accepted `def binary`: an extern of a binary operator
\* (new, and one of the built-in six) and of a unary one, a unary-operator
\* definition that is rejected and one that is accepted.
\*   extern binary | 5 ( a b ) 1 | 2      extern binary + 9 ( a b )
\*   extern unary ! ( a )                 def unary ! ( a ) z
\*   def unary + ( a ) a
NoOperatorInstalled ==
    {Case("frame", w, <<>>, 0, <<>>, 0, 0) :
        w \in {<<StrExtern, StrBinary, Word("|"), Word("5"), Word("("), Word("a"),
                 Word("b"), Word(")"), Word("1"), Word("|"), Word("2")>>,
               <<StrExtern, StrBinary, Word("+"), Word("9"), Word("("), Word("a"),
                 Word("b"), Word(")")>>,
               <<StrExtern, StrUnary, Word("!"), Word("("), Word("a"), Word(")")>>,
               <<StrDef, StrUnary, Word("!"), Word("("), Word("a"), Word(")"),
                 Word("z")>>,
               <<StrDef, StrUnary, Word("+"), Word("("), Word("a"), Word(")"),
                 Word("a")>>}}

\* The words put after the operand `1`: those of Words, more characters,
\* a byte that is no ASCII character, an identifier, and none (end of input).
WordsAfterOperand ==
    Words \cup {Word("!"), Word("*"), Word("<"), Word(">"), Word("b"), <<233>>, <<>>}

\* 1 <w> b; the same after `1 | b`, whose parse has looked | up; and after
\* an accepted def binary | 5 ( a b ) a.  `at` is the position of <w>.
AfterOperand ==
    {Case("infix", <<Word("1")>> \o (IF w = <<>> THEN <<>> ELSE <<w, Word("b")>>),
          <<>>, 2, w, 0, 0) : w \in WordsAfterOperand}
    \cup
    {Case("infix", <<Word("1"), Word("|"), Word("b"), Word("1"), Word("|"), Word("b")>>,
          <<>>, 5, Word("|"), 0, 0),
     Case("infix", TmplDefBinary \o <<Word("1"), Word("|"), Word("b")>>,
          TmplDefBinary, 11, Word("|"), 0, 0)}

\* The words put where ParseUnary is called: characters in and outside the
\* operator table, '(' and ',', keywords, an identifier, a number, a byte
\* that is no ASCII character, and none (end of input).
WordsAtUnary ==
    Words \cup {Word("!"), Word("-"), Word("<"), Word("~"), Word("b"), <<233>>, <<>>}

\* ! <w> a   (! <w> a ) for the opening parenthesis): ParseUnary is called
\* at `!` and again at <w>.
AtUnary ==
    {Case("prefix",
          <<Word("!")>> \o (IF w = <<>> THEN <<>> ELSE <<w, Word("a")>>)
             \o (IF w = Word("(") THEN <<Word(")")>> ELSE <<>>),
          <<>>, 2, w, 0, 0) : w \in WordsAtUnary}

\* The characters used as prefix operator and, as words, the infix
\* operators of the initial table.
PrefixChars == {Word("!"), Word("-"), Word("+"), Word("|"), Word("<"), Word("~")}
InfixWords == {Word("<"), Word(">"), Word("+"), Word("-"), Word("*"), Word("/")}

\* def binary <c> <prec> ( a b ) <body> ;
DefBinary(c, prec, body) ==
    <<StrDef, StrBinary, c, prec, Word("("), Word("a"), Word("b"), Word(")"),
      body, Word(";")>>

\* def binary | <prec> ( a b ) a ;
DefPipe(prec) == DefBinary(Word("|"), prec, Word("a"))

\* u a p b (n = 1) and a p u b (n = 2) for each prefix character u and each
\* infix operator p of the initial table, and for | after a definition that
\* gives it the lowest and the highest precedence; `at` is the position of
\* the expression's first word.
PrefixAndInfix ==
    {Case("binds", x[1] \o <<x[2], Word("a"), x[3], Word("b")>>,
          <<>>, Len(x[1]) + 1, x[2], 0, 1) :
        x \in ({<<>>} \X PrefixChars \X InfixWords)
                \cup ({DefPipe(Word("1")), DefPipe(Txt(<<"1","0","0">>))}
                         \X PrefixChars \X {Word("|")})}
    \cup
    {Case("binds", x[1] \o <<Word("a"), x[3], x[2], Word("b")>>,
          <<>>, Len(x[1]) + 1, x[2], 0, 2) :
        x \in ({<<>>} \X PrefixChars \X InfixWords)
                \cup ({DefPipe(Word("1")), DefPipe(Txt(<<"1","0","0">>))}
                         \X PrefixChars \X {Word("|")})}

\* A binary-operator definition whose body uses the operator being defined
\* (`at` is the position of the definition):
\*   n = 1   def binary | 5 ( a b ) a | b
\*   n = 2   def binary + 50 ( a b ) a * b + a
\*   n = 3   def binary | 5 ( a b ) a ; def binary | 50 ( a b ) a * b | a
OwnBody ==
    {Case("ownbody",
          <<StrDef, StrBinary, Word("|"), Word("5"), Word("("), Word("a"), Word("b"),
            Word(")"), Word("a"), Word("|"), Word("b")>>, <<>>, 1, Word("|"), 2, 1),
     Case("ownbody",
          <<StrDef, StrBinary, Word("+"), Txt(<<"5","0">>), Word("("), Word("a"),
            Word("b"), Word(")"), Word("a"), Word("*"), Word("b"), Word("+"),
            Word("a")>>, <<>>, 1, Word("+"), 2, 2),
     Case("ownbody",
          DefPipe(Word("5"))
             \o <<StrDef, StrBinary, Word("|"), Txt(<<"5","0">>), Word("("), Word("a"),
                  Word("b"), Word(")"), Word("a"), Word("*"), Word("b"), Word("|"),
                  Word("a")>>, <<>>, 11, Word("|"), 2, 3)}

\* The words put after a complete form that do not continue it: keywords,
\* an identifier, a number, characters that are no infix operator, a byte
\* that is no ASCII character, and none (end of input).
Followers ==
    {StrDef, StrExtern, StrThen, Word("a"), Word("1"), Word(";"), Word(")"),
     Word(","), Word("="), Word("|"), <<233>>, <<>>}

\* A well-formed form followed by one of Followers.
Followed ==
    {Case("lookahead", x[1] \o (IF x[2] = <<>> THEN <<>> ELSE <<x[2]>>),
          x[1], Len(x[1]) + 1, x[2], 0, 0) : x \in Templates \X Followers}

\* Definitions of | and of + that the backend accepts (body a or b), that
\* it rejects (body z, an unknown variable) and whose body does not parse.
OperatorDefinitions ==
    {DefBinary(Word("|"), Word("5"), Word("a")),
     DefBinary(Word("|"), Word("9"), Word("b")),
     DefBinary(Word("|"), Word("5"), Word("z")),
     DefBinary(Word("|"), Word("5"), Word(",")),
     DefBinary(Word("+"), Word("9"), Word("a")),
     DefBinary(Word("+"), Word("9"), Word("z"))}

\* 1 | 2     1 + 2     1 | 2 + 3
OperatorUses ==
    {<<Word("1"), Word("|"), Word("2")>>,
     <<Word("1"), Word("+"), Word("2")>>,
     <<Word("1"), Word("|"), Word("2"), Word("+"), Word("3")>>}

\* Up to two operator definitions, then an expression of numbers that uses
\* the operators; `at` is the position of the expression, n the number of
\* definitions.
AfterDefinitions ==
    {Case("userop", x[1] \o x[2], <<>>, Len(x[1]) + 1, <<>>, 2, Len(x[1]) \div 10) :
        x \in ({<<>>} \cup {<<d>>[1] : d \in OperatorDefinitions}
                      \cup {d[1] \o d[2] :
                               d \in OperatorDefinitions \X OperatorDefinitions})
               \X OperatorUses}

\* Comments: to the end of the line (newline), to a carriage return, with
\* tokens and a second # inside, two in a row, empty, and to the end of input.
CommentLines ==
    {Txt(<<"#", "\n">>),
     Txt(<<"#", " ", "3", " ", "+", " ", "d", "e", "f", " ", "#", " ", "(", "\n">>),
     Txt(<<"#", "x">>) \o <<13>>,
     Txt(<<"#", "x", "\n", "#", "y", "\n">>)}
CommentsToEnd == {Txt(<<"#">>), Txt(<<"#", " ", "+", " ", "3">>)}

\* 1 + 2 with a comment line at position `at` (before, inside, after), or
\* with a comment that runs to the end of the input after it; and an input
\* that is a comment only.  n is the number of tokens of the input.
Commented ==
    {Case("comment",
          [i \in 1..4 |-> IF i < x[2] THEN <<Word("1"), Word("+"), Word("2")>>[i]
                           ELSE IF i = x[2] THEN x[1]
                           ELSE <<Word("1"), Word("+"), Word("2")>>[i - 1]],
          <<>>, x[2], x[1], 0, 3) : x \in CommentLines \X (1..4)}
    \cup
    {Case("comment", <<Word("1"), Word("+"), Word("2"), c>>, <<>>, 4, c, 0, 3) :
        c \in CommentsToEnd}
    \cup
    {Case("comment", <<c>>, <<>>, 1, c, 0, 0) : c \in CommentLines \cup CommentsToEnd}

\* Runs of a letter and alphanumerics with the token each is: the nine
\* keywords, and runs that begin with, end with or differ by case from a
\* keyword.
RunsAndTokens ==
    {<<StrDef, TOK_DEF>>, <<StrExtern, TOK_EXTERN>>, <<StrIf, TOK_IF>>,
     <<StrThen, TOK_THEN>>, <<StrElse, TOK_ELSE>>, <<StrFor, TOK_FOR>>,
     <<StrIn, TOK_IN>>, <<StrBinary, TOK_BINARY>>, <<StrUnary, TOK_UNARY>>}
    \cup
    ({StrDef \o Txt(<<"i","n","e">>), StrDef \o Word("1"), Txt(<<"D","e","f">>),
      Txt(<<"d","e">>), StrIf \o Word("f"), StrIn \o Word("t"), StrFor \o StrIn,
      StrFor \o Word("9"), StrThen \o Word("s"), StrElse \o StrIf,
      StrExtern \o Word("2"), StrBinary \o Word("x"), StrUnary \o Word("0"),
      Word("x") \o StrDef, Txt(<<"a","1","b","2">>), Word("z")}
     \X {TOK_IDENTIFIER})

\* What stands directly after the run: nothing (the blank), ( and _b.
RunEnds == {<<>>, Word("("), Txt(<<"_","b">>)}

\* A run followed by one of RunEnds, as the whole input; `word` is the run,
\* n the token it is.
Runs ==
    {Case("ident", <<x[1][1] \o x[2]>>, <<>>, 1, x[1][1], 0, x[1][2]) :
        x \in RunsAndTokens \X RunEnds}

Cases == Replaced \cup Truncated \cup Precedences \cup Prototypes
            \cup RejectedThenUsed \cup NoOperatorInstalled \cup AfterOperand
            \cup AtUnary \cup PrefixAndInfix \cup OwnBody \cup Followed
            \cup AfterDefinitions \cup Commented \cup Runs

-----------------------------------------------------------------------------
(* The program state as the records the operators above work on.           *)

ParserState ==
    [input |-> input, pos |-> pos, lastChar |-> lastChar,
     IdentifierStr |-> IdentifierStr, NumVal |-> NumVal, tokStart |-> tokStart,
     CurTok |-> CurTok, BinopPrecedence |-> BinopPrecedence,
     ntok |-> ntok, nerr |-> nerr]

\* The backend state once the parser has left P.
BackendState(P) ==
    [FunctionProtos |-> FunctionProtos, TheModule |-> TheModule,
     BinopPrecedence |-> P.BinopPrecedence, NamedValues |-> {},
     nerr |-> P.nerr, abort |-> FALSE]

\* The lexer and parser globals become those of P.
SetParser(P) ==
    /\ pos' = P.pos
    /\ lastChar' = P.lastChar
    /\ IdentifierStr' = P.IdentifierStr
    /\ NumVal' = P.NumVal
    /\ tokStart' = P.tokStart
    /\ CurTok' = P.CurTok
    /\ ntok' = P.ntok

\* static std::map<char, int> BinopPrecedence = { ... }
DefaultPrecedence ==
    (60 :> 10) @@ (62 :> 10) @@ (43 :> 20) @@ (45 :> 20) @@ (42 :> 40) @@ (47 :> 40)

\* The tables ParseExpression is applied under: the initial one, and the
\* ones an accepted `def binary| p` leaves (p below, among and above the
\* initial precedences).
Tables ==
    {DefaultPrecedence,
     DefaultPrecedence @@ (124 :> 5),
     DefaultPrecedence @@ (124 :> 20),
     DefaultPrecedence @@ (124 :> 50)}

EmptyMap == [x \in {} |-> 0]

NoForm ==
    [kind |-> "none", start |-> 0, parsed |-> FALSE, accepted |-> FALSE,
     ast |-> Null, stopTok |-> 0, stopNtok |-> 0, nhanded |-> 0,
     tableBefore |-> DefaultPrecedence, tableParsed |-> DefaultPrecedence,
     startNtok |-> 0, stopPos |-> 0, stopChar |-> 32,
     errBefore |-> 0, errParsed |-> 0,
     protosBefore |-> EmptyMap, moduleBefore |-> EmptyMap]

\* The record of one loop iteration: the form's kind and offset, whether it
\* parsed and was accepted, its tree, the token and the gettok count at which
\* the parser stopped, the number of trees handed to the backend before it,
\* the table before the form and after its parse, the gettok count before
\* the form, the lexer's position and lastChar where the parser stopped,
\* the diagnostics count before the form and after its parse, and the
\* backend's FunctionProtos and TheModule before the form.
FormRecord(kind, parse, accepted) ==
    [kind |-> kind, start |-> tokStart, parsed |-> parse.ast # Null,
     accepted |-> accepted, ast |-> parse.ast, stopTok |-> parse.st.CurTok,
     stopNtok |-> parse.st.ntok, nhanded |-> Len(handed),
     tableBefore |-> BinopPrecedence,
     tableParsed |-> parse.st.BinopPrecedence,
     startNtok |-> ntok, stopPos |-> parse.st.pos,
     stopChar |-> parse.st.lastChar,
     errBefore |-> nerr, errParsed |-> parse.st.nerr,
     protosBefore |-> FunctionProtos, moduleBefore |-> TheModule]

Handed(kind, proto, ok) ==
    [kind |-> kind, start |-> tokStart, proto |-> proto, ok |-> ok]

\* The globals before main() runs.
InitGlobals ==
    /\ pos = 0
    /\ lastChar = 32
    /\ CurTok = 0
    /\ IdentifierStr = <<>>
    /\ NumVal = Zero
    /\ FunctionProtos = EmptyMap
    /\ TheModule = EmptyMap
    /\ pc = "start"
    /\ ntok = 0
    /\ nerr = 0
    /\ tokStart = 0
    /\ last = NoForm
    /\ handed = <<>>

Init ==
    /\ input \in Streams
    /\ expr = NoExpr
    /\ BinopPrecedence = DefaultPrecedence
    /\ InitGlobals

\* main(): prime the first token, make the module, enter MainLoop.
Main ==
    /\ pc = "start"
    /\ SetParser(getNextToken(ParserState))
    /\ pc' = "loop"
    /\ UNCHANGED <<input, expr, BinopPrecedence, FunctionProtos, TheModule, nerr,
                   last, handed>>

\* MainLoop, case TOK_EOF: return.
LoopEof ==
    /\ pc = "loop"
    /\ CurTok = TOK_EOF
    /\ pc' = "done"
    /\ last' = [NoForm EXCEPT !.kind = "eof", !.start = tokStart,
                              !.nhanded = Len(handed),
                              !.tableBefore = BinopPrecedence,
                              !.tableParsed = BinopPrecedence,
                              !.startNtok = ntok,
                              !.errBefore = nerr, !.errParsed = nerr,
                              !.protosBefore = FunctionProtos,
                              !.moduleBefore = TheModule]
    /\ UNCHANGED <<input, expr, pos, lastChar, CurTok, IdentifierStr, NumVal,
                   BinopPrecedence, FunctionProtos, TheModule, ntok, nerr,
                   tokStart, handed>>

\* MainLoop, case ';': ignore top-level semicolons.
LoopSemicolon ==
    /\ pc = "loop"
    /\ CurTok = 59
    /\ SetParser(getNextToken(ParserState))
    /\ last' = [NoForm EXCEPT !.kind = "semi", !.start = tokStart,
                              !.nhanded = Len(handed),
                              !.tableBefore = BinopPrecedence,
                              !.tableParsed = BinopPrecedence,
                              !.startNtok = ntok,
                              !.errBefore = nerr, !.errParsed = nerr,
                              !.protosBefore = FunctionProtos,
                              !.moduleBefore = TheModule]
    /\ UNCHANGED <<input, expr, BinopPrecedence, FunctionProtos, TheModule, nerr,
                   pc, handed>>

\* Recover without the skipped token.
Recover_NoSkip(kind, parse) ==
    /\ SetParser(parse.st)
    /\ BinopPrecedence' = parse.st.BinopPrecedence
    /\ nerr' = parse.st.nerr
    /\ last' = FormRecord(kind, parse, FALSE)
    /\ UNCHANGED <<FunctionProtos, TheModule, pc, handed>>

\* Recover that leaves MainLoop.
Recover_Return(kind, parse) ==
    /\ SetParser(getNextToken(parse.st))
    /\ BinopPrecedence' = parse.st.BinopPrecedence
    /\ nerr' = parse.st.nerr
    /\ last' = FormRecord(kind, parse, FALSE)
    /\ pc' = "done"
    /\ UNCHANGED <<FunctionProtos, TheModule, handed>>

\* The else branch of the three handlers: the parse failed.
Recover(kind, parse) ==
    /\ SetParser(getNextToken(parse.st))           \* skip token for error recovery
    /\ BinopPrecedence' = parse.st.BinopPrecedence
    /\ nerr' = parse.st.nerr
    /\ last' = FormRecord(kind, parse, FALSE)
    /\ UNCHANGED <<FunctionProtos, TheModule, pc, handed>>

\* Generated that skips a token, as after a failed parse, when codegen
\* returned failure.
Generated_Skip(kind, parse, C) ==
    /\ SetParser(IF C.ok THEN parse.st ELSE getNextToken(parse.st))
    /\ BinopPrecedence' = C.st.BinopPrecedence
    /\ FunctionProtos' = C.st.FunctionProtos
    /\ TheModule' = IF C.ok THEN EmptyMap ELSE C.st.TheModule
    /\ nerr' = C.st.nerr
    /\ pc' = IF C.st.abort THEN "abort" ELSE "loop"
    /\ last' = FormRecord(kind, parse, C.ok)
    /\ handed' = Append(handed, Handed(kind, parse.ast.Proto, C.ok))

\* The function went through FunctionAST::codegen with outcome C: on success
\* the module goes to the JIT and a new one is opened.
Generated(kind, parse, C) ==
    /\ SetParser(parse.st)
    /\ BinopPrecedence' = C.st.BinopPrecedence
    /\ FunctionProtos' = C.st.FunctionProtos
    /\ TheModule' = IF C.ok THEN EmptyMap ELSE C.st.TheModule
    /\ nerr' = C.st.nerr
    /\ pc' = IF C.st.abort THEN "abort" ELSE "loop"
    /\ last' = FormRecord(kind, parse, C.ok)
    /\ handed' = Append(handed, Handed(kind, parse.ast.Proto, C.ok))

\* The part HandleDefinition and HandleTopLevelExpression share.
HandleFunction(kind, parse) ==
    IF parse.ast # Null
    THEN Generated(kind, parse, FunctionCodegen(BackendState(parse.st), parse.ast))
    ELSE Recover(kind, parse)

\* Declared that installs the precedence of an extern binary operator.
Declared_Install(parse, B) ==
    /\ SetParser(parse.st)
    /\ BinopPrecedence' = IF isBinaryOp(parse.ast)
                          THEN MapAssign(parse.st.BinopPrecedence,
                                         getOperatorName(parse.ast),
                                         parse.ast.Precedence)
                          ELSE parse.st.BinopPrecedence
    /\ TheModule' = B.TheModule
    /\ FunctionProtos' = MapAssign(FunctionProtos, parse.ast.Name, parse.ast)
    /\ nerr' = parse.st.nerr
    /\ last' = FormRecord("extern", parse, TRUE)
    /\ handed' = Append(handed, Handed("extern", parse.ast, TRUE))
    /\ UNCHANGED pc

\* The extern was parsed: PrototypeAST::codegen, then FunctionProtos[name].
Declared(parse, B) ==
    /\ SetParser(parse.st)
    /\ BinopPrecedence' = parse.st.BinopPrecedence
    /\ TheModule' = B.TheModule
    /\ FunctionProtos' = MapAssign(FunctionProtos, parse.ast.Name, parse.ast)
    /\ nerr' = parse.st.nerr
    /\ last' = FormRecord("extern", parse, TRUE)
    /\ handed' = Append(handed, Handed("extern", parse.ast, TRUE))
    /\ UNCHANGED pc

HandlePrototype(parse) ==
    IF parse.ast # Null
    THEN Declared(parse, PrototypeCodegen(BackendState(parse.st), parse.ast))
    ELSE Recover("extern", parse)

HandleDefinition ==
    /\ pc = "loop"
    /\ CurTok = TOK_DEF
    /\ HandleFunction("def", ParseDefinition(ParserState))
    /\ UNCHANGED <<input, expr>>

HandleExtern ==
    /\ pc = "loop"
    /\ CurTok = TOK_EXTERN
    /\ HandlePrototype(ParseExtern(ParserState))
    /\ UNCHANGED <<input, expr>>

HandleTopLevelExpression ==
    /\ pc = "loop"
    /\ CurTok \notin {TOK_EOF, 59, TOK_DEF, TOK_EXTERN}
    /\ HandleFunction("expr", ParseTopLevelExpr(ParserState))
    /\ UNCHANGED <<input, expr>>

Next ==
    \/ Main
    \/ LoopEof
    \/ LoopSemicolon
    \/ HandleDefinition
    \/ HandleExtern
    \/ HandleTopLevelExpression

Spec == Init /\ [][Next]_vars

-----------------------------------------------------------------------------
(* ParseExpression on its own: one expression `a p b q c` under one of     *)
(* Tables; main() primes the first token, then the function is applied.    *)

InitExpr ==
    /\ expr \in [a : Operands, p : InfixChars, b : Operands, q : InfixChars,
                 c : Operands]
    /\ input = ExprText(expr)
    /\ BinopPrecedence \in Tables
    /\ InitGlobals

Parsed(parse) ==
    /\ SetParser(parse.st)
    /\ BinopPrecedence' = parse.st.BinopPrecedence
    /\ nerr' = parse.st.nerr
    /\ last' = FormRecord("expression", parse, FALSE)
    /\ pc' = "parsed"
    /\ UNCHANGED <<input, expr, FunctionProtos, TheModule, handed>>

ApplyParseExpression ==
    /\ pc = "loop"
    /\ Parsed(ParseExpression(ParserState))

NextExpr ==
    \/ Main
    \/ ApplyParseExpression

SpecExpr == InitExpr /\ [][NextExpr]_vars

-----------------------------------------------------------------------------
(* The interpreter on one of Cases.                                        *)

InitForm ==
    /\ expr \in Cases
    /\ input = Cat(expr.words)
    /\ BinopPrecedence = DefaultPrecedence
    /\ InitGlobals

SpecForm == InitForm /\ [][Next]_vars

-----------------------------------------------------------------------------
(* The interpreter as a running process, on the streams of Spec and the    *)
(* single forms of SpecForm.                                               *)

\* main() has not returned (Next has a step exactly in these states).
Running == pc \in {"start", "loop"}

\* main() and MainLoop are sequential code, so a step that can be taken is
\* taken.  This is weak fairness of Next, with "Next is enabled" written as
\* the state predicate Running.
Progress == []<>(~Running) \/ []<><<Next>>_vars

InitLive == Init \/ InitForm

SpecLive == InitLive /\ [][Next]_vars /\ Progress

-----------------------------------------------------------------------------
(* What the properties below speak of.                                     *)

\* precedenceOf(c): the value GetTokPrecedence yields for character c under
\* table T.
precedenceOf(T, c) == IF c \in DOMAIN T /\ T[c] > 0 THEN T[c] ELSE -1

\* The characters gettok can deliver as a character token.
Chars == 33..126

\* The text s stands in the input at offset i.
TextAt(i, s) ==
    /\ i >= 1
    /\ i + Len(s) - 1 <= Len(input)
    /\ SubSeq(input, i, i + Len(s) - 1) = s

\* The form the last iteration started at is the text s, and what follows
\* it (after one blank) does not open a parenthesis, which would make the
\* form's last identifier a call.
FormIs(s) ==
    /\ TextAt(last.start, s)
    /\ \/ last.start + Len(s) + 1 > Len(input)
       \/ input[last.start + Len(s) + 1] # 40

\* The last iteration ran one of the three handlers.
Handled == last.kind \in {"def", "extern", "expr"}

\* The trees handed to the backend before the last iteration.
HandedBefore == SubSeq(handed, 1, last.nhanded)

\* The positions in H of the definitions of binary operator c.
BinaryDefs(H, c) ==
    {i \in 1..Len(H) : /\ H[i].kind = "def"
                       /\ isBinaryOp(H[i].proto)
                       /\ getOperatorName(H[i].proto) = c}

Latest(S) == CHOOSE i \in S : \A j \in S : j <= i

\* The most recent definition of binary operator c in H was accepted
\* (rejected) by the backend.
LatestAccepted(H, c) == BinaryDefs(H, c) # {} /\ H[Latest(BinaryDefs(H, c))].ok
LatestRejected(H, c) == BinaryDefs(H, c) # {} /\ ~H[Latest(BinaryDefs(H, c))].ok

\* The tree of the top-level expression with body e.
TopLevel(e) == FunctionAST(PrototypeAST(AnonExpr, <<>>, FALSE, 0), e)

\* a | (b + c)
PipeOverPlus ==
    BinaryExprAST(124, Var("a"), BinaryExprAST(43, Var("b"), Var("c")))

-----------------------------------------------------------------------------
(* Properties of the interpreter (Spec).                                   *)

FailedBinaryDef(c) ==
    /\ last.kind = "def"
    /\ ~last.parsed
    /\ TextAt(last.start, StrDef \o <<32>> \o StrBinary \o <<c>>)

\* C3 as stated: after a `def binary<c> ...` that failed to parse, c is not
\* usable as an infix operator, precedenceOf(c) = -1.
C3_Original ==
    \A c \in Chars : FailedBinaryDef(c) => precedenceOf(BinopPrecedence, c) = -1

\* C3 amended: a `def binary<c> ...` that fails to parse leaves the
\* precedence of every character as it was before the form.
C3_FailedParseKeepsPrecedences ==
    \A c \in Chars :
       FailedBinaryDef(c) =>
          \A d \in Chars :
             precedenceOf(BinopPrecedence, d) = precedenceOf(last.tableBefore, d)

\* C3 witness: a `def binary| 7 ...` failed to parse while | had the
\* precedence 5 of an accepted definition, and | keeps it.
C3_Witness ==
    /\ FailedBinaryDef(124)
    /\ LatestAccepted(handed, 124)
    /\ precedenceOf(BinopPrecedence, 124) = 5

\* Every character outside the built-in six that has a positive precedence
\* in table T has an accepted definition as its latest one in H.
VisibleOnlyIfAccepted(T, H) ==
    \A c \in DOMAIN T \ BuiltinOps : T[c] > 0 => LatestAccepted(H, c)

\* C4: in the table a parse looks precedences up in, and in the table
\* between forms, a character that is not one of the six built-in
\* operators has a positive precedence only if the latest definition of it
\* as a binary operator was accepted by the backend.
C4_VisibleOnlyIfAccepted ==
    /\ VisibleOnlyIfAccepted(last.tableBefore, HandedBefore)
    /\ VisibleOnlyIfAccepted(last.tableParsed, HandedBefore)
    /\ pc # "abort" => VisibleOnlyIfAccepted(BinopPrecedence, handed)

\* C4 witness: a parse ran after | was defined, parsed only, and rejected:
\* the table it saw has no positive entry for |.
C4_Witness ==
    /\ last.kind = "expr"
    /\ LatestRejected(HandedBefore, 124)
    /\ \E i \in 1..Len(input) : TextAt(i, SrcDefPipeBody) /\ i < last.start
    /\ precedenceOf(last.tableParsed, 124) = -1

\* C5 as stated: the table is identical before and after parsing any form.
C5_Original == last.tableParsed = last.tableBefore

\* C9: after a handler whose parse failed, exactly one gettok call was made
\* beyond the token the parser stopped at, nothing was handed to the
\* backend and MainLoop goes on; after one whose parse succeeded, none.
C9_OneTokenSkipped ==
    Handled =>
       /\ ~last.parsed => /\ ntok = last.stopNtok + 1
                          /\ Len(handed) = last.nhanded
                          /\ pc = "loop"
       /\ last.parsed => /\ ntok = last.stopNtok
                         /\ CurTok = last.stopTok
                         /\ Len(handed) = last.nhanded + 1

\* C9 witness: a parse stopped at a token that is not the end of file, and
\* the handler has skipped it.
C9_Witness ==
    /\ Handled
    /\ ~last.parsed
    /\ last.stopTok # TOK_EOF
    /\ ntok = last.stopNtok + 1

\* The well-formed forms of the input, with the handler each belongs to.
WellFormed ==
    {<<SrcDefBar, "def">>, <<SrcDefPipeOk, "def">>, <<SrcExtern, "extern">>}

\* Text s stands at offset i as a form of its own: what follows it does not
\* open a parenthesis.
WellFormedAt(i, s) ==
    /\ TextAt(i, s)
    /\ \/ i + Len(s) + 1 > Len(input)
       \/ input[i + Len(s) + 1] # 40

\* A tree of kind k that starts at offset i was handed to the backend.
HandedAt(i, k) == \E n \in 1..Len(handed) : handed[n].start = i /\ handed[n].kind = k

\* C10 as stated: when the input has a `def foo(`, every well-formed form
\* after it has been parsed as its own form and handed to the backend by
\* the time MainLoop returns.
C10_Original ==
    pc = "done" =>
       \A i \in 1..Len(input) : \A j \in 1..Len(input) : \A w \in WellFormed :
          (TextAt(i, SrcDefFooOpen) /\ i < j /\ WellFormedAt(j, w[1]))
             => HandedAt(j, w[2])

\* C10 amended: a failed parse does not end MainLoop, and a well-formed
\* form at whose first token MainLoop dispatches is parsed as its own form
\* and handed to the backend (the token skipped after a malformed form may
\* be the first token of the next form, which is then not parsed as such).
C10_ResumesAtNextToken ==
    /\ (Handled /\ ~last.parsed) => pc = "loop"
    /\ \A w \in WellFormed :
          (Handled /\ WellFormedAt(last.start, w[1]))
             => /\ last.kind = w[2]
                /\ last.parsed
                /\ HandedAt(last.start, w[2])

\* C10 witness: `def bar(x) x` was parsed as a definition after a `def foo(`
\* earlier in the input had failed.
C10_Witness ==
    /\ last.kind = "def"
    /\ last.parsed
    /\ WellFormedAt(last.start, SrcDefBar)
    /\ \E i \in 1..Len(input) : TextAt(i, SrcDefFooOpen) /\ i < last.start
    /\ nerr > 0

-----------------------------------------------------------------------------
(* Properties of ParseExpression (SpecExpr).                               *)

\* The three operands of expr can be parsed.
Closed == expr.a.ast # Null /\ expr.b.ast # Null /\ expr.c.ast # Null

\* (a p b) q c   and   a p (b q c)
LeftTree ==
    BinaryExprAST(expr.q, BinaryExprAST(expr.p, expr.a.ast, expr.b.ast), expr.c.ast)
RightTree ==
    BinaryExprAST(expr.p, expr.a.ast, BinaryExprAST(expr.q, expr.b.ast, expr.c.ast))

\* The precedences of the two infix characters in the table of the parse.
PrecP == precedenceOf(last.tableBefore, expr.p)
PrecQ == precedenceOf(last.tableBefore, expr.q)

\* C6: for operands a, b, c and infix operators p, q of the table,
\* ParseExpression of `a p b q c` is Binary(p, a, Binary(q, b, c)) when q has
\* the higher precedence and Binary(q, Binary(p, a, b), c) when p has.
C6_HigherPrecedenceBindsTighter ==
    (pc = "parsed" /\ Closed) =>
       /\ (PrecP > 0 /\ PrecQ > PrecP) => last.ast = RightTree
       /\ (PrecQ > 0 /\ PrecP > PrecQ) => last.ast = LeftTree

\* C6 witness: `a + 1 * f(b)` under a table in which * is above +.
C6_Witness ==
    /\ pc = "parsed"
    /\ expr.a = OperandVar /\ expr.p = 43 /\ expr.b = OperandNum
    /\ expr.q = 42 /\ expr.c = OperandCall
    /\ last.ast = RightTree

\* C7: for operands a, b, c and infix operators p, q of equal precedence,
\* ParseExpression of `a p b q c` is Binary(q, Binary(p, a, b), c).
C7_EqualPrecedenceAssociatesLeft ==
    (pc = "parsed" /\ Closed /\ PrecP > 0 /\ PrecP = PrecQ) => last.ast = LeftTree

\* C7 witness: `a - a - a`, and `a + a | a` with | at the precedence of +.
C7_Witness ==
    /\ pc = "parsed"
    /\ expr.a = OperandVar /\ expr.b = OperandVar /\ expr.c = OperandVar
    /\ \/ expr.p = 45 /\ expr.q = 45
       \/ expr.p = 43 /\ expr.q = 124 /\ PrecQ = 20
    /\ last.ast = LeftTree

\* C8: a parenthesised operand is one operand of the tree whatever the
\* precedences inside and outside it, its closing parenthesis is consumed,
\* and an operand whose closing parenthesis is missing makes the parse
\* fail with one diagnostic.
C8_ParenthesesAreOneOperand ==
    pc = "parsed" =>
       /\ (Closed /\ PrecP > 0 /\ PrecQ > 0) =>
             /\ last.ast \in {LeftTree, RightTree}
             /\ last.stopTok = TOK_EOF
       /\ ( \/ expr.a = OperandOpen
            \/ PrecP > 0 /\ expr.b = OperandOpen
            \/ PrecP > 0 /\ PrecQ > 0 /\ expr.c = OperandOpen )
          => /\ last.ast = Null
             /\ nerr = 1

\* C8 witness: `(a<b) * a | 1` with | below *: the parenthesised a<b is the
\* left operand of *.
C8_Witness ==
    /\ pc = "parsed"
    /\ expr.a = OperandParen /\ expr.p = 42 /\ expr.b = OperandVar
    /\ expr.q = 124 /\ expr.c = OperandNum
    /\ PrecQ = 5
    /\ last.ast = LeftTree

-----------------------------------------------------------------------------
(* Properties of the interpreter after a rejection by the backend (Spec,   *)
(* SpecForm).                                                              *)

\* The last iteration parsed a form that codegen then rejected.
Rejected == Handled /\ last.parsed /\ ~last.accepted /\ pc # "abort"

\* C18: after a handler whose form parsed and was rejected by the backend,
\* the current token, the number of gettok calls, the number of characters
\* read and the lexer's lastChar are those the parser left: no token was
\* skipped and none was read again.
C18_RejectionKeepsTokenStream ==
    Rejected =>
       /\ CurTok = last.stopTok
       /\ ntok = last.stopNtok
       /\ pos = last.stopPos
       /\ lastChar = last.stopChar

\* C18 witness: `def binary| 5 (a b) z` was rejected with the first token of
\* the next form, an identifier, as the current token.
C18_Witness ==
    /\ Rejected
    /\ last.kind = "def"
    /\ TextAt(last.start, SrcDefPipeBad)
    /\ last.stopTok = TOK_IDENTIFIER
    /\ CurTok = TOK_IDENTIFIER
    /\ nerr > last.errParsed

\* The backend as it was before the last iteration.
BackendBefore ==
    [BackendState(ParserState) EXCEPT !.FunctionProtos = last.protosBefore,
                                      !.TheModule = last.moduleBefore]

\* C19 as stated: after FunctionAST::codegen has failed for a definition of
\* f, FunctionProtos is what it was before the form, and getFunction finds
\* f only if it found f before the form.
C19_Original ==
    (Rejected /\ last.kind = "def") =>
       /\ FunctionProtos = last.protosBefore
       /\ getFunction(BackendState(ParserState), last.ast.Proto.Name).found
             => getFunction(BackendBefore, last.ast.Proto.Name).found

\* C20 as stated: after a binary-operator definition was rejected by the
\* backend, every character has the precedence it had before the form.
C20_Original ==
    (Rejected /\ last.kind = "def" /\ isBinaryOp(last.ast.Proto)) =>
       \A d \in Chars :
          precedenceOf(BinopPrecedence, d) = precedenceOf(last.tableBefore, d)

-----------------------------------------------------------------------------
(* Properties of the interpreter on a single form (SpecForm).              *)

\* C11: a handler whose parse failed has seen exactly one LogError /
\* LogErrorP diagnostic between the start of the parse and its return,
\* whichever parse function detected the failure and however many callers
\* it went through; the recovery adds none.
C11_OneDiagnosticPerFailedParse ==
    (Handled /\ ~last.parsed) =>
       /\ last.errParsed = last.errBefore + 1
       /\ nerr = last.errParsed

\* C11 witness: `for i = 1 , 9 , ) in i`: the failure is detected by
\* ParsePrimary under ParseUnary (operator `)`), under ParseExpression for
\* the step, under ParseForExpr, under the top-level expression.
C11_Witness ==
    /\ Handled
    /\ ~last.parsed
    /\ last.start = 1
    /\ expr.family = "replace"
    /\ expr.tmpl = TmplForStep /\ expr.at = 8 /\ expr.word = Word(")")
    /\ last.stopTok = TOK_IN
    /\ nerr = 1

\* The first form of the input has been through its handler.
FirstForm == Handled /\ last.start = 1

\* The input is a template cut off after at least one word and before its
\* last one, where the form is still in progress (`f` alone, the first word
\* of the call template, is a complete expression).
CutInsideForm ==
    /\ expr.family = "truncate"
    /\ expr.at >= 1
    /\ expr.at < Len(expr.tmpl)
    /\ ~(expr.tmpl = TmplCall /\ expr.at = 1)

\* C13: a form cut off by the end of input fails to parse with the parser
\* stopped at TOK_EOF; every parse that fails at TOK_EOF has emitted one
\* diagnostic, its recovery makes one more gettok call, which leaves the
\* current token at TOK_EOF, nothing is handed to the backend and MainLoop
\* is at its test, which returns; and when MainLoop returns on an input
\* with no form at all, no diagnostic was emitted.
C13_EndOfInputInsideForm ==
    /\ (FirstForm /\ CutInsideForm) => (~last.parsed /\ last.stopTok = TOK_EOF)
    /\ (Handled /\ ~last.parsed /\ last.stopTok = TOK_EOF) =>
          /\ last.errParsed = last.errBefore + 1
          /\ nerr = last.errParsed
          /\ ntok = last.stopNtok + 1
          /\ CurTok = TOK_EOF
          /\ Len(handed) = last.nhanded
          /\ pc = "loop"
    /\ pc = "done" => (last.kind = "eof" /\ CurTok = TOK_EOF /\ nerr = last.errBefore)
    /\ (pc = "done" /\ expr.words = <<>>) => (nerr = 0 /\ handed = <<>> /\ ntok = 1)

\* C13 witness: `def f ( a b )` and then the end of input: the body is
\* missing, ParsePrimary reports it, the recovery reads TOK_EOF again.
C13_Witness ==
    /\ FirstForm
    /\ CutInsideForm
    /\ expr.tmpl = TmplDef /\ expr.at = 6
    /\ ~last.parsed
    /\ last.stopTok = TOK_EOF
    /\ CurTok = TOK_EOF
    /\ nerr = 1

\* The tree the handler of the last iteration gives to codegen().
TreeForBackend == IF last.kind = "extern" THEN last.ast ELSE last.ast.Proto

\* C14: a handler calls codegen exactly when its parse function returned a
\* tree, on that tree, and no diagnostic was emitted while that tree was
\* parsed; a handler whose parse failed has called nothing of the backend:
\* no tree was handed over and FunctionProtos and TheModule are untouched.
C14_OnlyParsedFormsReachBackend ==
    Handled =>
       /\ last.parsed =>
             /\ last.errParsed = last.errBefore
             /\ Len(handed) = last.nhanded + 1
             /\ handed[Len(handed)].start = last.start
             /\ handed[Len(handed)].kind = last.kind
             /\ handed[Len(handed)].proto = TreeForBackend
       /\ ~last.parsed =>
             /\ last.errParsed > last.errBefore
             /\ Len(handed) = last.nhanded
             /\ FunctionProtos = last.protosBefore
             /\ TheModule = last.moduleBefore

\* C14 witness: `def f ( a b ) then`: the prototype is complete, the body
\* is a syntax error, and the backend has seen nothing of f.
C14_Witness ==
    /\ FirstForm
    /\ expr.family = "replace"
    /\ expr.tmpl = TmplDef /\ expr.at = 7 /\ expr.word = StrThen
    /\ ~last.parsed
    /\ handed = <<>>
    /\ FunctionProtos = EmptyMap

\* The top-level form `for i = 1 , 9 [, step] in i` as a tree.
ForTree(step) ==
    TopLevel(ForExprAST(Word("i"), NumberExprAST(Num(1, <<>>)),
                        NumberExprAST(Num(9, <<>>)), step, Var("i")))

\* The input is `for i = 1 , 9 in i` with a word that ParseForExpr requires
\* replaced by one that is not it: the identifier by a non-identifier, or
\* the '=', the ',' or the `in` by any other word.
ForPartMissing ==
    /\ expr.family = "replace"
    /\ expr.tmpl = TmplFor
    /\ \/ expr.at = 2 /\ expr.word \notin IdentWords
       \/ expr.at \in {3, 5, 7} /\ expr.word # TmplFor[expr.at]

\* C15: `for i = 1 , 9 in i` parses to a For node with a null Step and
\* `for i = 1 , 9 , 2 in i` to one whose Step is the number 2; with the
\* word after the end expression varied, a parsed For node has a Step
\* exactly when that word is a comma; and a missing identifier, '=',
\* first ',' or `in` is a parse error with one diagnostic.
C15_ForStepIsOptional ==
    FirstForm =>
       /\ expr.words = TmplFor => last.ast = ForTree(Null)
       /\ expr.words = TmplForStep
             => last.ast = ForTree(NumberExprAST(Num(2, <<>>)))
       /\ ( /\ expr.family = "replace"
            /\ expr.tmpl = TmplForStep /\ expr.at = 7
            /\ last.parsed )
          => /\ last.ast.Body.kind = "For"
             /\ (last.ast.Body.Step # Null) <=> (expr.word = Word(","))
       /\ ForPartMissing => (~last.parsed /\ nerr = 1)

\* C15 witness: `for i = 1 , 9 + 2 in i`: no second comma, the end
\* expression is 9 + 2 and the Step is null.
C15_Witness ==
    /\ FirstForm
    /\ expr.family = "replace"
    /\ expr.tmpl = TmplForStep /\ expr.at = 7 /\ expr.word = Word("+")
    /\ last.parsed
    /\ last.ast.Body.Step = Null
    /\ last.ast.Body.End.kind = "Binary"

\* The spellings of a precedence ParsePrototype accepts, each with the
\* precedence it stands for, and the ones it rejects.
AcceptedPrecedences ==
    {<<Txt(<<"1">>), 1>>, <<Txt(<<"5">>), 5>>, <<Txt(<<"3","0">>), 30>>,
     <<Txt(<<"1","0","0">>), 100>>, <<Txt(<<"1",".","5">>), 1>>,
     <<Txt(<<"9","9",".","9">>), 99>>, <<Txt(<<"1","0","0",".","0">>), 100>>}
RejectedPrecedences ==
    {Txt(<<"0">>), Txt(<<"1","0","1">>), Txt(<<"0",".","5">>),
     Txt(<<"1","0","0",".","5">>)}

\* C16: in `def binary | <number> ( a b ) a` a number from 1 to 100 is the
\* precedence of the prototype (1 and 100 included, a fraction truncated)
\* and the precedence of | in the table once the definition is accepted; a
\* number below 1 or above 100 is a parse error with one diagnostic and |
\* gets no precedence; without a number the precedence is 30.  Every
\* binary-operator definition handed to the backend carries a precedence
\* in 1..100, and every positive entry of the table is in 1..100.
C16_PrecedenceIsWithin1To100 ==
    /\ (FirstForm /\ expr.family = "precedence") =>
          /\ \A x \in AcceptedPrecedences :
                expr.word = x[1] =>
                   /\ last.parsed
                   /\ last.ast.Proto.Precedence = x[2]
                   /\ last.accepted
                   /\ precedenceOf(BinopPrecedence, 124) = x[2]
          /\ expr.word \in RejectedPrecedences =>
                /\ ~last.parsed
                /\ nerr = 1
                /\ precedenceOf(BinopPrecedence, 124) = -1
          /\ expr.word = <<>> =>
                /\ last.parsed
                /\ last.ast.Proto.Precedence = 30
                /\ precedenceOf(BinopPrecedence, 124) = 30
          /\ \/ expr.word = <<>>
             \/ expr.word \in RejectedPrecedences
             \/ \E x \in AcceptedPrecedences : expr.word = x[1]
    /\ \A n \in 1..Len(handed) :
          (handed[n].kind = "def" /\ isBinaryOp(handed[n].proto))
             => handed[n].proto.Precedence \in 1..100
    /\ \A c \in DOMAIN BinopPrecedence : BinopPrecedence[c] \in 0..100

\* C16 witness: `def binary | 100 ( a b ) a` was accepted and | has the
\* precedence 100.
C16_Witness ==
    /\ FirstForm
    /\ expr.family = "precedence"
    /\ expr.word = Txt(<<"1","0","0">>)
    /\ last.accepted
    /\ BinopPrecedence[124] = 100

\* C17: `def <head> ( n names ) 1` parses exactly when the head is a plain
\* identifier (any n, 0 included), `unary !` with n = 1, or `binary |` with
\* n = 2, and the prototype then has these n names in order; with a token
\* that is neither an identifier nor ')' among the names (a comma, a number,
\* an operator, '(', a keyword, ';') the form is a parse error; every such
\* error is one diagnostic.
C17_PrototypeArity ==
    (FirstForm /\ expr.family = "prototype") =>
       /\ expr.word = <<>> =>
             /\ last.parsed <=> (expr.kind = 0 \/ expr.n = expr.kind)
             /\ last.parsed => last.ast.Proto.Args = ArgNames(1, expr.n)
       /\ expr.word # <<>> => ~last.parsed
       /\ ~last.parsed => nerr = 1

\* C17 witness: `def binary | ( a b c ) 1`: three names for a binary
\* operator, reported after the ')' was consumed.
C17_Witness ==
    /\ FirstForm
    /\ expr.family = "prototype"
    /\ expr.kind = 2 /\ expr.n = 3 /\ expr.word = <<>>
    /\ ~last.parsed
    /\ last.stopTok = TOK_NUMBER
    /\ nerr = 1

\* The last iteration was a `def binary ...` form, parsed or not.
DefBinaryForm ==
    /\ last.kind = "def"
    /\ TextAt(last.start, StrDef \o <<32>> \o StrBinary)
    /\ \/ last.start + 10 > Len(input)
       \/ ~isalnum(input[last.start + 10])

RECURSIVE WordOffset(_, _)
WordOffset(words, k) ==
    IF k <= 1 THEN 1 ELSE WordOffset(words, k - 1) + Len(words[k - 1]) + 1

\* The token gettok delivers for the text w read on its own.
TokenOf(w) ==
    gettok([input |-> w, pos |-> 0, lastChar |-> 32, IdentifierStr |-> <<>>,
            NumVal |-> Zero, tokStart |-> 0]).tok

\* The last iteration started at word k of the case's words.
FormAtWord(k) == Handled /\ last.start = WordOffset(expr.words, k)

One == NumberExprAST(Num(1, <<>>))

\* C22: ParseExpression returns only at a token whose precedence lookup
\* yields -1; and for the token t after the operand `1`: if t is an ASCII
\* character with a table entry > 0, it is taken as the infix operator
\* (`1 t b` is Binary(t, 1, b)); otherwise (a character with no entry or an
\* entry of value 0, a non-ASCII byte, a keyword, an identifier, a number,
\* end of input) the expression is the operand alone, with t left as the
\* current token.
C22_InfixIffPositiveEntry ==
    /\ (last.parsed /\ last.kind \in {"def", "expr"}) =>
          precedenceOf(last.tableParsed, last.stopTok) = -1
    /\ (expr.family = "infix" /\ FormAtWord(expr.at - 1)) =>
          IF /\ isascii(TokenOf(expr.word))
             /\ TokenOf(expr.word) \in DOMAIN last.tableBefore
             /\ last.tableBefore[TokenOf(expr.word)] > 0
          THEN last.ast = TopLevel(BinaryExprAST(TokenOf(expr.word), One, Var("b")))
          ELSE /\ last.ast = TopLevel(One)
               /\ last.stopTok = TokenOf(expr.word)
               /\ last.stopNtok = last.startNtok + 1

\* C22 witness: the second `1 | b` of `1 | b 1 | b`: the table holds | with
\* value 0 and the expression is `1` alone.
C22_Witness ==
    /\ expr.family = "infix"
    /\ expr.at = 5
    /\ FormAtWord(4)
    /\ 124 \in DOMAIN last.tableBefore
    /\ last.tableBefore[124] = 0
    /\ last.ast = TopLevel(One)
    /\ last.stopTok = 124

\* C23: for `! w a`, where ParseUnary is called at `!` and at w: when w is
\* an ASCII character other than '(' and ',', whether or not it has a table
\* entry and with no unary operator defined, the tree is
\* Unary(!, Unary(w, a)); when w is an identifier, a number or '(' the
\* operand of ! is what ParsePrimary yields (the variable, the number, the
\* parenthesised `a`); for ',' , a keyword, a non-ASCII byte and end of
\* input the parse fails as ParsePrimary does, with one diagnostic.
C23_ParseUnary ==
    (expr.family = "prefix" /\ FormAtWord(1)) =>
       IF isascii(TokenOf(expr.word)) /\ TokenOf(expr.word) \notin {40, 44}
       THEN last.ast
               = TopLevel(UnaryExprAST(33, UnaryExprAST(TokenOf(expr.word), Var("a"))))
       ELSE IF TokenOf(expr.word) = TOK_IDENTIFIER
       THEN /\ last.ast = TopLevel(UnaryExprAST(33, VariableExprAST(expr.word)))
            /\ last.stopTok = TOK_IDENTIFIER
       ELSE IF TokenOf(expr.word) = TOK_NUMBER
       THEN /\ last.ast = TopLevel(UnaryExprAST(33, One))
            /\ last.stopTok = TOK_IDENTIFIER
       ELSE IF TokenOf(expr.word) = 40
       THEN last.ast = TopLevel(UnaryExprAST(33, Var("a")))
       ELSE /\ ~last.parsed
            /\ last.errParsed = last.errBefore + 1

\* C23 witness: `! + a` is Unary(!, Unary(+, a)), + being a binary operator
\* of the table and no unary operator being defined.
C23_Witness ==
    /\ expr.family = "prefix"
    /\ FormAtWord(1)
    /\ expr.word = Word("+")
    /\ StrUnary \o <<43>> \notin DOMAIN FunctionProtos
    /\ precedenceOf(last.tableBefore, 43) = 20
    /\ last.ast = TopLevel(UnaryExprAST(33, UnaryExprAST(43, Var("a"))))

\* The prefix character and the infix operator of a case of PrefixAndInfix.
PrefixOf(x) == x.word[1]
InfixOf(x) == x.words[x.at + (IF x.n = 1 THEN 2 ELSE 1)][1]

\* C24: `u a p b` is Binary(p, Unary(u, a), b) and `a p u b` is
\* Binary(p, a, Unary(u, b)), for each prefix character u and each infix
\* operator p, of precedence 1, 10, 20, 40 or 100.
C24_PrefixBindsTighter ==
    (expr.family = "binds" /\ FormAtWord(expr.at)) =>
       /\ precedenceOf(last.tableBefore, InfixOf(expr)) > 0
       /\ last.ast =
            TopLevel(IF expr.n = 1
                     THEN BinaryExprAST(InfixOf(expr),
                                        UnaryExprAST(PrefixOf(expr), Var("a")),
                                        Var("b"))
                     ELSE BinaryExprAST(InfixOf(expr), Var("a"),
                                        UnaryExprAST(PrefixOf(expr), Var("b"))))

\* C24 witness: `- a | b` with | of precedence 1, the lowest there is, is
\* Binary(|, Unary(-, a), b).
C24_Witness ==
    /\ expr.family = "binds"
    /\ FormAtWord(expr.at)
    /\ expr.n = 1
    /\ precedenceOf(last.tableBefore, 124) = 1
    /\ last.ast = TopLevel(BinaryExprAST(124, UnaryExprAST(45, Var("a")), Var("b")))

\* (a * b) c a
TimesThen(c) == BinaryExprAST(c, BinaryExprAST(42, Var("a"), Var("b")), Var("a"))

\* C25: while a `def binary<c>` form is parsed every character has the
\* precedence it had before the form, c included, and the table after the
\* parse still has it; so `def binary | 5 (a b) a | b` with | new has the
\* body `a` and stops at |, `def binary + 50 (a b) a * b + a` has the body
\* (a * b) + a of the old precedence 20, and `def binary | 50 (a b) a * b | a`
\* after an accepted precedence 5 has the body (a * b) | a.
C25_BodyParsedWithOldTable ==
    /\ DefBinaryForm =>
          \A c \in Chars :
             precedenceOf(last.tableParsed, c) = precedenceOf(last.tableBefore, c)
    /\ (expr.family = "ownbody" /\ FormAtWord(expr.at)) =>
          /\ last.parsed
          /\ last.ast.Proto.Precedence \in {5, 50}
          /\ expr.n = 1 =>
                /\ precedenceOf(last.tableBefore, 124) = -1
                /\ last.ast.Body = Var("a")
                /\ last.stopTok = 124
          /\ expr.n = 2 =>
                /\ precedenceOf(last.tableBefore, 43) = 20
                /\ last.ast.Body = TimesThen(43)
          /\ expr.n = 3 =>
                /\ precedenceOf(last.tableBefore, 124) = 5
                /\ last.ast.Body = TimesThen(124)

\* C25 witness: `def binary + 50 (a b) a * b + a` was accepted: + now has
\* precedence 50 and the body is (a * b) + a.
C25_Witness ==
    /\ expr.family = "ownbody"
    /\ FormAtWord(expr.at)
    /\ expr.n = 2
    /\ last.accepted
    /\ precedenceOf(BinopPrecedence, 43) = 50
    /\ last.ast.Body = TimesThen(43)

\* C26: when a parse function has returned a tree to its handler, the
\* current token is the one the parse stopped at and at least one token was
\* consumed; and for a well-formed form t (definition, operator
\* definitions, extern, for, if, call, parenthesis) followed by a word w that
\* does not continue it: the form parses, gettok was called once for main's
\* first token and once per word of t, and the current token is w's (end of
\* input when there is no w), starting at w's offset.
C26_OneTokenLookahead ==
    /\ (Handled /\ last.parsed /\ pc # "abort") =>
          /\ CurTok = last.stopTok
          /\ ntok = last.stopNtok
          /\ last.stopNtok > last.startNtok
    /\ (expr.family = "lookahead" /\ FormAtWord(1)) =>
          /\ last.parsed
          /\ CurTok = TokenOf(expr.word)
          /\ ntok = 1 + Len(expr.tmpl)
          /\ expr.word # <<>> => tokStart = WordOffset(expr.words, expr.at)
          /\ expr.word = <<>> => lastChar = EOF

\* C26 witness: `( 1 + 2 ) def`: the parenthesised expression was parsed and
\* `def` is the current token, not yet consumed.
C26_Witness ==
    /\ expr.family = "lookahead"
    /\ FormAtWord(1)
    /\ expr.tmpl = TmplParen
    /\ expr.word = StrDef
    /\ last.accepted
    /\ CurTok = TOK_DEF
    /\ ntok = 6

\* The operators of the Binary nodes of tree e.
RECURSIVE BinaryOps(_)
BinaryOps(e) ==
    IF e.kind = "Binary" THEN {e.Op} \cup BinaryOps(e.LHS) \cup BinaryOps(e.RHS)
    ELSE IF e.kind = "Unary" THEN BinaryOps(e.Operand)
    ELSE IF e.kind = "Call"
         THEN UNION {BinaryOps(e.Args[i]) : i \in 1..Len(e.Args)}
    ELSE IF e.kind = "If"
         THEN BinaryOps(e.Cond) \cup BinaryOps(e.Then) \cup BinaryOps(e.Else)
    ELSE IF e.kind = "For"
         THEN BinaryOps(e.Start) \cup BinaryOps(e.End) \cup BinaryOps(e.Step)
                 \cup BinaryOps(e.Body)
    ELSE {}

\* C27: the assertion of BinaryExprAST::codegen never fails, and every
\* Binary node of a function handed to the backend has an operator that is
\* one of + - * / < > or a character c with the prototype binary<c> in
\* FunctionProtos when the form began.
C27_BinaryOperatorIsKnown ==
    /\ pc # "abort"
    /\ (last.kind \in {"def", "expr"} /\ last.parsed) =>
          \A c \in BinaryOps(last.ast.Body) :
             \/ c \in BuiltinOps
             \/ StrBinary \o <<c>> \in DOMAIN last.protosBefore

\* C27 witness: `1 | 2` was accepted by the backend after a definition of |
\* that it rejected and a later one that it accepted.
C27_Witness ==
    /\ expr.family = "userop"
    /\ FormAtWord(expr.at)
    /\ last.accepted
    /\ last.ast.Body = BinaryExprAST(124, One, NumberExprAST(Num(2, <<>>)))
    /\ \E i \in 1..Len(handed) : handed[i].kind = "def" /\ ~handed[i].ok
    /\ pc # "abort"

\* 1 + 2
OnePlusTwo == BinaryExprAST(43, One, NumberExprAST(Num(2, <<>>)))

\* The last iteration started at the `1` of a case of Commented.
AtOnePlusTwo == FormAtWord(IF expr.at = 1 THEN 2 ELSE 1)

\* C28: a comment produces no token and hides no token after its line:
\* `1 + 2` with a comment line before it, inside it or after it, or with a
\* comment that runs to the end of the input, is the expression 1 + 2; the
\* whole run calls gettok once per token of the input and once more for the
\* end of input, reports nothing, and hands over exactly that expression; an
\* input that is only a comment yields the end-of-input token at once.
C28_CommentsProduceNoToken ==
    /\ (expr.family = "comment" /\ AtOnePlusTwo) =>
          /\ expr.n = 3
          /\ last.ast = TopLevel(OnePlusTwo)
          /\ last.accepted
          /\ last.stopTok = TOK_EOF
          /\ last.startNtok = 1
          /\ last.stopNtok = 4
    /\ (expr.family = "comment" /\ pc = "loop" /\ ntok = 1 /\ expr.n = 0) =>
          CurTok = TOK_EOF
    /\ (expr.family = "comment" /\ pc = "done") =>
          /\ nerr = 0
          /\ ntok = expr.n + 1
          /\ Len(handed) = (IF expr.n = 0 THEN 0 ELSE 1)
          /\ lastChar = EOF

\* C28 witness: in `1 #x<CR> + 2` the comment ends at the carriage return
\* and the expression is 1 + 2.
C28_Witness ==
    /\ expr.family = "comment"
    /\ AtOnePlusTwo
    /\ expr.word = Txt(<<"#", "x">>) \o <<13>>
    /\ expr.at = 2
    /\ last.ast = TopLevel(OnePlusTwo)

\* C29: the first gettok call on a run of a letter and alphanumerics,
\* ended by a blank, a '(' or a '_', yields the keyword token exactly when
\* the whole run is one of the nine keywords and TOK_IDENTIFIER otherwise;
\* IdentifierStr is the whole run and the character that ended the run is
\* the next to be looked at.
C29_WholeRunIsClassified ==
    (expr.family = "ident" /\ pc = "loop" /\ ntok = 1) =>
       /\ CurTok = expr.n
       /\ IdentifierStr = expr.word
       /\ pos = Len(expr.word) + 1
       /\ lastChar = input[Len(expr.word) + 1]
       /\ tokStart = 1
       /\ (CurTok # TOK_IDENTIFIER) <=>
             expr.word \in {StrDef, StrExtern, StrIf, StrThen, StrElse, StrFor,
                            StrIn, StrBinary, StrUnary}

\* C29 witness: `def1(` gives one identifier token carrying def1, with the
\* ( still to come.
C29_Witness ==
    /\ expr.family = "ident"
    /\ pc = "loop"
    /\ ntok = 1
    /\ expr.word = StrDef \o Word("1")
    /\ CurTok = TOK_IDENTIFIER
    /\ IdentifierStr = StrDef \o Word("1")
    /\ lastChar = 40

\* C30: from a state in which gettok has delivered the end-of-input token,
\* every step leaves the current token at end of input, reads no character
\* (the read position and lastChar, which is EOF, stay), also the steps that
\* call gettok again (the token skipped after a parse that failed at the end
\* of input).
C30_EndOfInputIsSticky ==
    [][(CurTok = TOK_EOF /\ ntok > 0) =>
          /\ lastChar = EOF
          /\ pos = Len(input) + 1
          /\ CurTok' = TOK_EOF
          /\ lastChar' = lastChar
          /\ pos' = pos]_vars

\* C30 witness: a parse failed at the end of input and the handler called
\* gettok once more: the current token is still the end of input.
C30_Witness ==
    /\ Handled
    /\ ~last.parsed
    /\ last.stopTok = TOK_EOF
    /\ ntok = last.stopNtok + 1
    /\ CurTok = TOK_EOF
    /\ lastChar = EOF

-----------------------------------------------------------------------------
(* Properties of the running interpreter (SpecLive).                       *)

=============================================================================
